---- MODULE Spec2Model ----
(***************************************************************************)
(* CollaboList: the auth reconciliation layer (AuthContext.tsx), the user  *)
(* record service (userServices.ts), the checklist record service          *)
(* (checklistService.ts) and the route guard (ProtectedRoute.tsx), with    *)
(* the identity provider and the document store as environment.            *)
(***************************************************************************)
EXTENDS Integers, Sequences, FiniteSets, TLC

\* ------------------------------------------------------------------ bounds
MaxUid == 2          \* provider accounts ever created in one behaviour
MaxEvents == 1       \* session-change notifications waiting for the listener
MaxCallbacks == 1    \* listener callbacks suspended at an await
MaxOps == 3          \* operations invoked in one behaviour of SpecAll
MaxCalls == 2         \* service calls made in one behaviour
Unlimited == -1

Emails == {"a@x.com", "b@x.com"}
Passwords == {"pw1", "pw2"}
SocialEmails == {"g@x.com"}   \* the Google / Apple identity of the browser's user

Null == [null |-> TRUE]
Now == "now"         \* new Date(): timestamps are not told apart
NoUid == 0
NoPath == ""
Uids == 1..MaxUid

\* ------------------------------------------------------------- error codes
EMAIL_IN_USE == "auth/email-already-in-use"
WRONG_PASSWORD == "auth/wrong-password"
NETWORK_FAILED == "auth/network-request-failed"
AUTH_ERROR == "auth/error"
POPUP_CLOSED == "auth/popup-closed-by-user"
ACCOUNT_EXISTS == "auth/account-exists-with-different-credential"
UNSUPPORTED_BROWSER == "auth/unsupported-browser"
PROVIDER_LINKED == "auth/provider-already-linked"

MSG_EXISTS == "An account with this email already exists."
MSG_CREATE_FAILED == "Failed to create account. Please try again."
MSG_SIGN_OUT_FAILED == "Failed to sign out. Please try again."
MSG_PROVIDER == "provider message"
MSG_UNKNOWN == "An unknown error occurred"
MSG_APPLE == "Apple Sign In is only available on iOS and Safari browsers"
MSG_EMAIL_IN_USE == "This email is already in use by another account."

VARIABLES
  accounts,       \* identity provider: uid -> account, or Null
  nextUid,        \* identity provider: next subject id to hand out
  cur,            \* identity provider: auth.currentUser (a uid, or NoUid)
  events,         \* session changes not yet handed to the listener
  cbs,            \* listener callbacks suspended at an await
  users,          \* document store: users/{id} -> record, or Null
  user,           \* AuthProvider state
  loading,
  error,
  isInitialized,
  isAnonymous,
  op,             \* the auth operation in flight, or Null
  budget,         \* invocations left in this behaviour (Unlimited: no cap)
  last,           \* the step that produced this state
  location,       \* router: the current path
  navFrom,        \* router: location.state.from, or NoPath
  checklists,     \* document store: checklist id -> document, or Null
  calls,          \* checklistService calls: slot -> call
  hist,           \* the store accesses of the checklist calls, in order
  userAgent,      \* window.navigator.userAgent: the tokens it contains
  verifiedOnly,   \* the requireEmailVerification prop of the routes' guard
  clock,          \* the wall clock read by `new Date()`, in milliseconds
  ret             \* what the last userServices call returned or threw

vars == <<accounts, nextUid, cur, events, cbs, users, user, loading, error,
          isInitialized, isAnonymous, op, budget, last, location, navFrom,
          checklists, calls, hist, userAgent, verifiedOnly, clock, ret>>

route == <<location, navFrom>>
browser == <<userAgent, verifiedOnly>>
service == <<clock, ret>>
lists == <<checklists, calls, hist>>

provider == <<accounts, nextUid, cur, events>>

\* ------------------------------------------------------- identity provider
\* mailed: the provider has sent the account a verification email
PasswordAccount(e, p) ==
  [email |-> e, pw |-> p, anon |-> FALSE, verified |-> FALSE, mailed |-> FALSE]
AnonymousAccount ==
  [email |-> "", pw |-> "", anon |-> TRUE, verified |-> FALSE, mailed |-> FALSE]
\* a Google / Apple identity with its profile; "" is a value the provider
\* does not supply (null)
SocialProfile(e, name, photo) ==
  [email |-> e, pw |-> "", anon |-> FALSE, verified |-> TRUE, mailed |-> FALSE,
   displayName |-> name, photoURL |-> photo]
SocialAccount(e) == SocialProfile(e, "Ann", "ann.png")

Registered(e) == \E u \in Uids : accounts[u] # Null /\ accounts[u].email = e

\* the FirebaseUser object the provider hands out for account u
FirebaseUser(acc, u) ==
  [uid |-> u, email |-> acc[u].email, isAnonymous |-> acc[u].anon,
   emailVerified |-> acc[u].verified]

\* onAuthStateChanged only notifies when the signed-in uid changes
Notify(acc, newCur) ==
  IF newCur = cur THEN events
  ELSE Append(events, IF newCur = NoUid THEN Null ELSE FirebaseUser(acc, newCur))

CanNotify == Len(events) < MaxEvents

\* auth.currentUser?.email, "" when there is no session or no email
currentUserEmail == IF cur = NoUid THEN "" ELSE accounts[cur].email

\* a provider that accepts any credential for an existing account
reauthenticateWithCredential_any(acc, u, cred) ==
  acc[u] # Null

\* reauthenticateWithCredential: the credential must be that of account u
reauthenticateWithCredential(acc, u, cred) ==
  /\ acc[u] # Null
  /\ cred.email # ""
  /\ acc[u].email = cred.email
  /\ acc[u].pw = cred.password

\* EmailAuthProvider.credential(email, password)
credential(e, p) == [email |-> e, password |-> p]

\* ------------------------------------------------------ userServices.ts
\* a spread in the other order: {createdAt, updatedAt, ...user} keeps the
\* stamps the caller supplied
stamped_callerWins(input, created, updated) ==
  [k \in DOMAIN input \cup {"createdAt", "updatedAt"} |->
     IF k \in DOMAIN input THEN input[k]
     ELSE IF k = "createdAt" THEN created ELSE updated]

\* setDoc(userRef, {...user, createdAt: new Date(), updatedAt: new Date()}):
\* the record written, with the two clock reads replacing the caller's stamps
stamped(input, created, updated) ==
  [k \in DOMAIN input \cup {"createdAt", "updatedAt"} |->
     IF k = "createdAt" THEN created
     ELSE IF k = "updatedAt" THEN updated ELSE input[k]]

\* what a call did: the store after it, whether it threw, and the write
\* requests it sent to the store, in order
Outcome(store, threw, writes) == [store |-> store, threw |-> threw, writes |-> writes]

\* a setDoc whose write lands although the call reports a failure
createUser_written(store, input, created, updated, ok) ==
  Outcome([store EXCEPT ![input.id] = stamped(input, created, updated)], ~ok,
          <<"setDoc">>)

\* createUser: setDoc of the whole record; ok = FALSE is a store failure
createUser(store, input, created, updated, ok) ==
  IF ok THEN Outcome([store EXCEPT ![input.id] = stamped(input, created, updated)],
                     FALSE, <<"setDoc">>)
  ELSE Outcome(store, TRUE, <<"setDoc">>)

\* getUser: the record, Null when there is none, a throw on a store failure
getUser(store, id, ok) ==
  IF ok THEN [value |-> store[id], threw |-> FALSE]
  ELSE [value |-> Null, threw |-> TRUE]

\* a patch value: Some(x) is a defined value, None is undefined / null
Some(x) == <<x>>
None == <<>>

\* the field path the Google sign-in passes as a key of its update
LAST_LOGIN_PATH == "metadata.lastLogin"

\* Firestore updateDoc(ref, data): a key of data replaces the field of that
\* name; the dotted key replaces one entry of the metadata map
updateDoc(document, data) ==
  LET plain == DOMAIN data \ {LAST_LOGIN_PATH}
      d == [k \in DOMAIN document \cup plain |->
              IF k \in plain THEN data[k] ELSE document[k]]
  IN IF LAST_LOGIN_PATH \notin DOMAIN data THEN d
     ELSE LET m == IF "metadata" \in DOMAIN d THEN d.metadata
                   ELSE [k \in {} |-> Null] IN
            [k \in DOMAIN d \cup {"metadata"} |->
               IF k = "metadata"
                 THEN [j \in DOMAIN m \cup {"lastLogin"} |->
                         IF j = "lastLogin" THEN data[LAST_LOGIN_PATH] ELSE m[j]]
                 ELSE d[k]]

\* the object updateUser hands to updateDoc: updatedAt: new Date(), then every
\* entry of the patch whose value is neither undefined nor null
updateData(updates, now) ==
  LET defined == {k \in DOMAIN updates : updates[k] # None} IN
    [k \in defined \cup {"updatedAt"} |->
       IF k \in defined THEN updates[k][1] ELSE now]

\* an updateUser that skips the write only when the patch defines no field
updateUser_anyKey(store, id, updates, now, ok) ==
  IF \A k \in DOMAIN updates : updates[k] = None
    THEN Outcome(store, FALSE, <<>>)
  ELSE IF ~ok \/ store[id] = Null THEN Outcome(store, TRUE, <<"updateDoc">>)
  ELSE Outcome([store EXCEPT ![id] = updateDoc(store[id], updateData(updates, now))],
               FALSE, <<"updateDoc">>)

\* updateUser: `if (Object.keys(updateData).length <= 1) return`, else
\* updateDoc, which throws on a missing document or a store failure
updateUser(store, id, updates, now, ok) ==
  IF Cardinality(DOMAIN updateData(updates, now)) <= 1
    THEN Outcome(store, FALSE, <<>>)
  ELSE IF ~ok \/ store[id] = Null THEN Outcome(store, TRUE, <<"updateDoc">>)
  ELSE Outcome([store EXCEPT ![id] = updateDoc(store[id], updateData(updates, now))],
               FALSE, <<"updateDoc">>)

\* deactivateUser: updateDoc {isActive: false, deletedAt: now, updatedAt: now}
deactivateUser(store, id, now, ok) ==
  IF ~ok \/ store[id] = Null THEN Outcome(store, TRUE, <<"updateDoc">>)
  ELSE Outcome([store EXCEPT ![id] =
                  updateDoc(store[id], [isActive |-> FALSE, deletedAt |-> now,
                                        updatedAt |-> now])],
               FALSE, <<"updateDoc">>)

\* the store call at which userServices.deleteUser may fail
DeleteFailures == {"none", "getDoc", "updateDoc", "deleteDoc"}

\* a deleteUser without the `if (!userDoc.exists()) return`
userServices_deleteUser_unchecked(store, id, now, failAt) ==
  IF failAt = "getDoc" THEN Outcome(store, TRUE, <<>>)
  ELSE LET d == deactivateUser(store, id, now, failAt # "updateDoc") IN
         IF d.threw THEN Outcome(store, TRUE, d.writes)
         ELSE IF failAt = "deleteDoc"
           THEN Outcome(d.store, TRUE, d.writes \o <<"deleteDoc">>)
         ELSE Outcome([d.store EXCEPT ![id] = Null], FALSE, d.writes \o <<"deleteDoc">>)

\* deleteUser: getDoc; return if absent; deactivateUser; deleteDoc
userServices_deleteUser(store, id, now, failAt) ==
  IF failAt = "getDoc" THEN Outcome(store, TRUE, <<>>)
  ELSE IF store[id] = Null THEN Outcome(store, FALSE, <<>>)
  ELSE LET d == deactivateUser(store, id, now, failAt # "updateDoc") IN
         IF d.threw THEN Outcome(store, TRUE, d.writes)
         ELSE IF failAt = "deleteDoc"
           THEN Outcome(d.store, TRUE, d.writes \o <<"deleteDoc">>)
         ELSE Outcome([d.store EXCEPT ![id] = Null], FALSE, d.writes \o <<"deleteDoc">>)

\* the failures the store reports
StoreErrors == {"permission-denied", "unavailable"}
NOT_FOUND == "not-found"      \* updateDoc of a document that does not exist

\* the message of the Error each function throws from its catch block
FailedMessage(fn) ==
  CASE fn = "createUser" -> "Failed to create user"
    [] fn = "getUser" -> "Failed to get user"
    [] fn = "updateUser" -> "Failed to update user"
    [] fn = "deactivateUser" -> "Failed to deactivate user"
    [] fn = "deleteUser" -> "Failed to delete user document"

\* a catch block that passes the store's code on
rethrown_withCode(fn, caught) == [message |-> FailedMessage(fn), code |-> caught]

\* catch (error) { console.error(...); throw new Error('Failed to ...') }
rethrown(fn, caught) == [message |-> FailedMessage(fn)]

\* ------------------------------------------------- AuthContext.tsx: mapping
mappedUser(fu) ==
  [id |-> fu.uid,
   email |-> IF fu.email # "" THEN fu.email
             ELSE IF fu.isAnonymous THEN "" ELSE "no-email@example.com",
   role |-> IF fu.isAnonymous THEN "guest" ELSE "user",
   isActive |-> TRUE,
   lastLogin |-> Now,
   emailVerified |-> fu.emailVerified,
   isAnonymous |-> fu.isAnonymous]

Err(code, message) == [code |-> code, message |-> message]

Step(actor, outcome, uid) == [actor |-> actor, outcome |-> outcome, uid |-> uid]

\* ------------------------------------------------------------------- Init
\* the provider and the store before anyone has signed up
NoAccounts ==
  /\ accounts = [u \in Uids |-> Null]
  /\ nextUid = 1
  /\ cur = NoUid
  /\ events = <<Null>>          \* the listener's first notification
  /\ users = [u \in Uids |-> Null]

\* useState initial values of AuthProvider
AuthProvider ==
  /\ cbs = <<>>
  /\ user = Null
  /\ loading = TRUE
  /\ error = Null
  /\ isInitialized = FALSE
  /\ isAnonymous = FALSE
  /\ op = Null
  /\ last = Step("init", "none", NoUid)

\* window.navigator.userAgent, lower-cased, as the tokens the capability
\* check looks for: iphone|ipad|ipod, safari, chrome
UserAgent(ios, safari, chrome) == [ios |-> ios, safari |-> safari, chrome |-> chrome]
IPhoneSafari == UserAgent(TRUE, TRUE, FALSE)
MacSafari == UserAgent(FALSE, TRUE, FALSE)
DesktopChrome == UserAgent(FALSE, TRUE, TRUE)   \* Chrome's string names Safari too
Firefox == UserAgent(FALSE, FALSE, FALSE)
UserAgents == {IPhoneSafari, MacSafari, DesktopChrome, Firefox}

\* lib/firebase.ts: isIos || (safari && !chrome)
isIosOrSafari == userAgent.ios \/ (userAgent.safari /\ ~userAgent.chrome)

\* the checklist documents of the signed-in user, none stored
ChecklistIds == {"c1"}
NoChecklists == [c \in ChecklistIds |-> Null]

\* the router and the checklist store, for the specifications that leave
\* them alone
Elsewhere ==
  /\ location = "/login"
  /\ navFrom = NoPath
  /\ verifiedOnly = FALSE
  /\ checklists = NoChecklists
  /\ calls = <<>>
  /\ hist = <<>>

\* userServices is only called through the auth context
NoCalls ==
  /\ clock = 0
  /\ ret = Null

Init ==
  /\ NoAccounts
  /\ AuthProvider
  /\ budget = Unlimited
  /\ Elsewhere
  /\ userAgent = MacSafari
  /\ NoCalls

\* ----------------------------------------------- onAuthStateChanged listener
RemoveAt(s, i) == [j \in 1..(Len(s) - 1) |-> IF j < i THEN s[j] ELSE s[j + 1]]

\* a null branch that forgets setUser(null)
onAuthStateChanged_null_keepsUser ==
  /\ events # <<>>
  /\ Head(events) = Null
  /\ events' = Tail(events)
  /\ isAnonymous' = FALSE
  /\ loading' = FALSE
  /\ isInitialized' = TRUE
  /\ last' = Step("listener", "done", NoUid)
  /\ UNCHANGED <<accounts, nextUid, cur, cbs, users, user, error, op>>
  /\ UNCHANGED budget
  /\ UNCHANGED <<route, lists, browser, service>>

\* the callback is entered with no session: it runs to its end
onAuthStateChanged_null ==
  /\ events # <<>>
  /\ Head(events) = Null
  /\ events' = Tail(events)
  /\ user' = Null
  /\ isAnonymous' = FALSE
  /\ loading' = FALSE
  /\ isInitialized' = TRUE
  /\ last' = Step("listener", "done", NoUid)
  /\ UNCHANGED <<accounts, nextUid, cur, cbs, users, error, op>>
  /\ UNCHANGED budget
  /\ UNCHANGED <<route, lists, browser, service>>

\* the callback is entered with a permanent session: it runs to its end
onAuthStateChanged_user ==
  /\ events # <<>>
  /\ Head(events) # Null
  /\ ~Head(events).isAnonymous
  /\ events' = Tail(events)
  /\ isAnonymous' = FALSE
  /\ user' = mappedUser(Head(events))
  /\ loading' = FALSE
  /\ isInitialized' = TRUE
  /\ last' = Step("listener", "done", Head(events).uid)
  /\ UNCHANGED <<accounts, nextUid, cur, cbs, users, error, op>>
  /\ UNCHANGED budget
  /\ UNCHANGED <<route, lists, browser, service>>

\* the callback is entered with an anonymous session: it sets isAnonymous and
\* suspends at `await userServices.getUser`
onAuthStateChanged_anonymous ==
  /\ events # <<>>
  /\ Head(events) # Null
  /\ Head(events).isAnonymous
  /\ Len(cbs) < MaxCallbacks
  /\ events' = Tail(events)
  /\ isAnonymous' = TRUE
  /\ \E ok \in BOOLEAN :
       cbs' = Append(cbs, [fu |-> Head(events), pc |-> "getUser",
                           res |-> getUser(users, Head(events).uid, ok)])
  /\ last' = Step("listener", "await", Head(events).uid)
  /\ UNCHANGED <<accounts, nextUid, cur, users, user, loading, error,
                 isInitialized, op>>
  /\ UNCHANGED budget
  /\ UNCHANGED <<route, lists, browser, service>>

\* getUser returned no record: the callback suspends at `await createUser`
onAuthStateChanged_createUser ==
  \E i \in 1..Len(cbs) :
    /\ cbs[i].pc = "getUser"
    /\ ~cbs[i].res.threw
    /\ cbs[i].res.value = Null
    /\ \E ok \in BOOLEAN :
         LET r == createUser(users, mappedUser(cbs[i].fu), Now, Now, ok) IN
           /\ users' = r.store
           /\ cbs' = [cbs EXCEPT ![i] = [fu |-> cbs[i].fu, pc |-> "createUser",
                                         res |-> [value |-> Null, threw |-> r.threw]]]
    /\ last' = Step("listener", "await", cbs[i].fu.uid)
    /\ UNCHANGED <<accounts, nextUid, cur, events, user, loading, error,
                   isInitialized, isAnonymous, op>>
    /\ UNCHANGED budget
    /\ UNCHANGED <<route, lists, browser, service>>

\* the record exists, or the inner try caught a store failure, or createUser
\* returned: setUser(mappedUser) and the finally block
onAuthStateChanged_settle ==
  \E i \in 1..Len(cbs) :
    /\ \/ cbs[i].pc = "createUser"
       \/ cbs[i].pc = "getUser" /\ (cbs[i].res.threw \/ cbs[i].res.value # Null)
    /\ cbs' = RemoveAt(cbs, i)
    /\ user' = mappedUser(cbs[i].fu)
    /\ loading' = FALSE
    /\ isInitialized' = TRUE
    /\ last' = Step("listener", "done", cbs[i].fu.uid)
    /\ UNCHANGED <<accounts, nextUid, cur, events, users, error, isAnonymous, op>>
    /\ UNCHANGED budget
    /\ UNCHANGED <<route, lists, browser, service>>

\* the observer's error callback
onAuthStateChanged_error ==
  /\ error' = Err(AUTH_ERROR, MSG_UNKNOWN)
  /\ loading' = FALSE
  /\ isInitialized' = TRUE
  /\ last' = Step("listenerError", "done", NoUid)
  /\ UNCHANGED <<accounts, nextUid, cur, events, cbs, users, user, isAnonymous, op>>
  /\ UNCHANGED budget
  /\ UNCHANGED <<route, lists, browser, service>>

Listener ==
  \/ onAuthStateChanged_null
  \/ onAuthStateChanged_user
  \/ onAuthStateChanged_anonymous
  \/ onAuthStateChanged_createUser
  \/ onAuthStateChanged_settle
  \/ onAuthStateChanged_error

\* An operation can be invoked once the provider renders its children, and
\* the UI runs one operation at a time.
CanInvoke == isInitialized /\ op = Null /\ budget # 0
Spend == IF budget > 0 THEN budget - 1 ELSE budget

\* --------------------------------------------------------------- signUp
\* setLoading(true); setError(null); await firebaseCreateUser(...).  The
\* provider answers a registered email with email-already-in-use; for a free
\* email it creates the account and signs it in, or the request fails.
signUp_call ==
  /\ CanInvoke
  /\ budget' = Spend
  /\ \E e \in Emails, p \in Passwords :
       \/ /\ Registered(e)
          /\ op' = [name |-> "signUp", pc |-> "firebaseCreateUser", email |-> e,
                    ok |-> FALSE, code |-> EMAIL_IN_USE, uid |-> NoUid]
          /\ UNCHANGED provider
       \/ /\ ~Registered(e)
          /\ op' = [name |-> "signUp", pc |-> "firebaseCreateUser", email |-> e,
                    ok |-> FALSE, code |-> NETWORK_FAILED, uid |-> NoUid]
          /\ UNCHANGED provider
       \/ /\ ~Registered(e)
          /\ nextUid <= MaxUid
          /\ CanNotify
          /\ accounts' = [accounts EXCEPT ![nextUid] = PasswordAccount(e, p)]
          /\ cur' = nextUid
          /\ events' = Notify(accounts', nextUid)
          /\ nextUid' = nextUid + 1
          /\ op' = [name |-> "signUp", pc |-> "firebaseCreateUser", email |-> e,
                    ok |-> TRUE, code |-> "", uid |-> nextUid]
  /\ loading' = TRUE
  /\ error' = Null
  /\ last' = Step("signUp", "await", NoUid)
  /\ UNCHANGED <<cbs, users, user, isInitialized, isAnonymous>>
  /\ UNCHANGED <<route, lists, browser, service>>

\* the record the sign-up flow writes for a new account
signUp_userData(uid, e) ==
  [id |-> uid, email |-> e, role |-> "user", isActive |-> TRUE,
   lastLogin |-> Now, emailVerified |-> FALSE]

\* firebaseCreateUser resolved: await userServices.createUser(userData)
signUp_createUser ==
  /\ op # Null /\ op.name = "signUp" /\ op.pc = "firebaseCreateUser" /\ op.ok
  /\ \E ok \in BOOLEAN :
       LET r == createUser(users, signUp_userData(op.uid, op.email), Now, Now, ok) IN
         /\ users' = r.store
         /\ op' = [op EXCEPT !.pc = "createUser", !.ok = ~r.threw]
  /\ last' = Step("signUp", "await", op.uid)
  /\ UNCHANGED <<accounts, nextUid, cur, events, cbs, user, loading, error,
                 isInitialized, isAnonymous>>
  /\ UNCHANGED budget
  /\ UNCHANGED <<route, lists, browser, service>>

\* a catch that never normalises the message
signUp_message_generic(code) == MSG_CREATE_FAILED

\* the catch's message: normalised for the single case of a taken email
signUp_message(code) ==
  IF code = EMAIL_IN_USE THEN MSG_EXISTS ELSE MSG_CREATE_FAILED

\* either await threw (catch, finally), or both resolved (finally)
signUp_return ==
  /\ op # Null /\ op.name = "signUp"
  /\ \/ /\ op.pc = "firebaseCreateUser" /\ ~op.ok
        /\ error' = Err(op.code, signUp_message(op.code))
        /\ last' = Step("signUp", "rejected", NoUid)
     \/ /\ op.pc = "createUser" /\ ~op.ok
        /\ error' = Err(AUTH_ERROR, signUp_message(AUTH_ERROR))
        /\ last' = Step("signUp", "rejected", op.uid)
     \/ /\ op.pc = "createUser" /\ op.ok
        /\ error' = error
        /\ last' = Step("signUp", "resolved", op.uid)
  /\ loading' = FALSE
  /\ op' = Null
  /\ UNCHANGED <<accounts, nextUid, cur, events, cbs, users, user,
                 isInitialized, isAnonymous>>
  /\ UNCHANGED budget
  /\ UNCHANGED <<route, lists, browser, service>>

\* --------------------------------------------------------------- signIn
\* the provider's answer to signInWithEmailAndPassword(e, p)
SignInMatch(e, p) ==
  {u \in Uids : accounts[u] # Null /\ accounts[u].email = e /\ accounts[u].pw = p}

\* setError(null); await firebaseSignIn(...)
signIn_call ==
  /\ CanInvoke
  /\ budget' = Spend
  /\ \E e \in Emails, p \in Passwords :
       \/ /\ SignInMatch(e, p) = {}
          /\ op' = [name |-> "signIn", pc |-> "firebaseSignIn", ok |-> FALSE,
                    code |-> WRONG_PASSWORD, page |-> FALSE]
          /\ UNCHANGED provider
       \/ \E u \in SignInMatch(e, p) :
            /\ u = cur \/ CanNotify
            /\ cur' = u
            /\ events' = Notify(accounts, u)
            /\ op' = [name |-> "signIn", pc |-> "firebaseSignIn", ok |-> TRUE,
                      code |-> "", page |-> FALSE]
            /\ UNCHANGED <<accounts, nextUid>>
  /\ error' = Null
  /\ last' = Step("signIn", "await", NoUid)
  /\ UNCHANGED <<cbs, users, user, loading, isInitialized, isAnonymous>>
  /\ UNCHANGED <<route, lists, browser, service>>

\* resolved: LoginPage.handleSubmit, when it made the call, goes on to
\* navigate('/dashboard').  threw: setError({code, message}); throw
signIn_return ==
  /\ op # Null /\ op.name = "signIn"
  /\ IF op.ok
       THEN /\ error' = error
            /\ last' = Step("signIn", "resolved", cur)
            /\ location' = IF op.page THEN "/dashboard" ELSE location
            /\ navFrom' = IF op.page THEN NoPath ELSE navFrom
       ELSE /\ error' = Err(op.code, MSG_PROVIDER)
            /\ last' = Step("signIn", "rejected", NoUid)
            /\ UNCHANGED route
  /\ op' = Null
  /\ UNCHANGED <<accounts, nextUid, cur, events, cbs, users, user, loading,
                 isInitialized, isAnonymous>>
  /\ UNCHANGED budget
  /\ UNCHANGED <<lists, browser, service>>

\* ------------------------------------------------------ signInAnonymously
\* setLoading(true); setError(null); await firebaseSignInAnonymously(auth)
signInAnonymously_call ==
  /\ CanInvoke
  /\ budget' = Spend
  /\ \/ /\ op' = [name |-> "signInAnonymously", ok |-> FALSE, code |-> NETWORK_FAILED]
        /\ UNCHANGED provider
     \/ /\ cur # NoUid /\ accounts[cur].anon   \* already anonymous: same session
        /\ op' = [name |-> "signInAnonymously", ok |-> TRUE, code |-> ""]
        /\ UNCHANGED provider
     \/ /\ ~(cur # NoUid /\ accounts[cur].anon)
        /\ nextUid <= MaxUid
        /\ CanNotify
        /\ accounts' = [accounts EXCEPT ![nextUid] = AnonymousAccount]
        /\ cur' = nextUid
        /\ events' = Notify(accounts', nextUid)
        /\ nextUid' = nextUid + 1
        /\ op' = [name |-> "signInAnonymously", ok |-> TRUE, code |-> ""]
  /\ loading' = TRUE
  /\ error' = Null
  /\ last' = Step("signInAnonymously", "await", NoUid)
  /\ UNCHANGED <<cbs, users, user, isInitialized, isAnonymous>>
  /\ UNCHANGED <<route, lists, browser, service>>

signInAnonymously_return ==
  /\ op # Null /\ op.name = "signInAnonymously"
  /\ IF op.ok
       THEN /\ error' = error
            /\ last' = Step("signInAnonymously", "resolved", cur)
       ELSE /\ error' = Err(op.code, MSG_PROVIDER)
            /\ last' = Step("signInAnonymously", "rejected", NoUid)
  /\ loading' = FALSE
  /\ op' = Null
  /\ UNCHANGED <<accounts, nextUid, cur, events, cbs, users, user,
                 isInitialized, isAnonymous>>
  /\ UNCHANGED budget
  /\ UNCHANGED <<route, lists, browser, service>>

\* --------------------------------------------------------------- signOut
\* setLoading(true); setError(null); await auth.signOut()
signOut_call ==
  /\ CanInvoke
  /\ budget' = Spend
  /\ \/ /\ op' = [name |-> "signOut", ok |-> FALSE, code |-> NETWORK_FAILED]
        /\ UNCHANGED provider
     \/ /\ cur = NoUid \/ CanNotify
        /\ cur' = NoUid
        /\ events' = Notify(accounts, NoUid)
        /\ op' = [name |-> "signOut", ok |-> TRUE, code |-> ""]
        /\ UNCHANGED <<accounts, nextUid>>
  /\ loading' = TRUE
  /\ error' = Null
  /\ last' = Step("signOut", "await", NoUid)
  /\ UNCHANGED <<cbs, users, user, isInitialized, isAnonymous>>
  /\ UNCHANGED <<route, lists, browser, service>>

\* a signOut that leaves `user` to the listener
signOut_return_waits ==
  /\ op # Null /\ op.name = "signOut"
  /\ IF op.ok
       THEN /\ isAnonymous' = FALSE
            /\ error' = error
            /\ last' = Step("signOut", "resolved", NoUid)
       ELSE /\ error' = Err(op.code, MSG_SIGN_OUT_FAILED)
            /\ last' = Step("signOut", "rejected", NoUid)
            /\ UNCHANGED isAnonymous
  /\ loading' = FALSE
  /\ op' = Null
  /\ UNCHANGED <<accounts, nextUid, cur, events, cbs, users, user, isInitialized>>
  /\ UNCHANGED budget
  /\ UNCHANGED <<route, lists, browser, service>>

\* a signOut whose cleanup runs whether or not the provider call succeeded
signOut_return_alwaysClears ==
  /\ op # Null /\ op.name = "signOut"
  /\ user' = Null
  /\ isAnonymous' = FALSE
  /\ IF op.ok
       THEN /\ error' = error
            /\ last' = Step("signOut", "resolved", NoUid)
       ELSE /\ error' = Err(op.code, MSG_SIGN_OUT_FAILED)
            /\ last' = Step("signOut", "rejected", NoUid)
  /\ loading' = FALSE
  /\ op' = Null
  /\ UNCHANGED <<accounts, nextUid, cur, events, cbs, users, isInitialized>>
  /\ UNCHANGED budget
  /\ UNCHANGED <<route, lists, browser, service>>

\* resolved: setUser(null); setIsAnonymous(false).  threw: setError.  finally
signOut_return ==
  /\ op # Null /\ op.name = "signOut"
  /\ IF op.ok
       THEN /\ user' = Null
            /\ isAnonymous' = FALSE
            /\ error' = error
            /\ last' = Step("signOut", "resolved", NoUid)
       ELSE /\ error' = Err(op.code, MSG_SIGN_OUT_FAILED)
            /\ last' = Step("signOut", "rejected", NoUid)
            /\ UNCHANGED <<user, isAnonymous>>
  /\ loading' = FALSE
  /\ op' = Null
  /\ UNCHANGED <<accounts, nextUid, cur, events, cbs, users, isInitialized>>
  /\ UNCHANGED budget
  /\ UNCHANGED <<route, lists, browser, service>>

\* ------------------------------------------------------------ deleteUser
\* `if (!auth.currentUser?.email) throw`: rejected before anything is set
deleteUser_guard ==
  /\ CanInvoke
  /\ budget' = Spend
  /\ currentUserEmail = ""
  /\ last' = Step("deleteUser", "rejected", cur)
  /\ UNCHANGED <<accounts, nextUid, cur, events, cbs, users, user, loading,
                 error, isInitialized, isAnonymous, op>>
  /\ UNCHANGED <<route, lists, browser, service>>

\* setLoading(true); setError(null); await reauthenticateWithCredential(...)
deleteUser_call ==
  /\ CanInvoke
  /\ budget' = Spend
  /\ currentUserEmail # ""
  /\ \E p \in Passwords :
       LET c == credential(accounts[cur].email, p) IN
         op' = [name |-> "deleteUser", pc |-> "reauthenticate", uid |-> cur,
                ok |-> reauthenticateWithCredential(accounts, cur, c),
                code |-> WRONG_PASSWORD, cred |-> c, password |-> p,
                recordThrew |-> FALSE]
  /\ loading' = TRUE
  /\ error' = Null
  /\ last' = Step("deleteUser", "await", cur)
  /\ UNCHANGED <<accounts, nextUid, cur, events, cbs, users, user,
                 isInitialized, isAnonymous>>
  /\ UNCHANGED <<route, lists, browser, service>>

\* a record deletion that does not wait for the re-authentication's result
deleteUser_record_unchecked ==
  /\ op # Null /\ op.name = "deleteUser" /\ op.pc = "reauthenticate"
  /\ \E f \in DeleteFailures :
       LET r == userServices_deleteUser(users, op.uid, Now, f) IN
         /\ users' = r.store
         /\ op' = [op EXCEPT !.pc = "userServices.deleteUser",
                             !.recordThrew = r.threw]
  /\ last' = Step("deleteUser", "await", op.uid)
  /\ UNCHANGED <<accounts, nextUid, cur, events, cbs, user, loading, error,
                 isInitialized, isAnonymous>>
  /\ UNCHANGED budget
  /\ UNCHANGED <<route, lists, browser, service>>

\* re-authenticated: try { await userServices.deleteUser(uid) } catch { log }
deleteUser_record ==
  /\ op # Null /\ op.name = "deleteUser" /\ op.pc = "reauthenticate" /\ op.ok
  /\ \E f \in DeleteFailures :
       LET r == userServices_deleteUser(users, op.uid, Now, f) IN
         /\ users' = r.store
         /\ op' = [op EXCEPT !.pc = "userServices.deleteUser",
                             !.recordThrew = r.threw]
  /\ last' = Step("deleteUser", "await", op.uid)
  /\ UNCHANGED <<accounts, nextUid, cur, events, cbs, user, loading, error,
                 isInitialized, isAnonymous>>
  /\ UNCHANGED budget
  /\ UNCHANGED <<route, lists, browser, service>>

\* await auth.currentUser.delete()
deleteUser_account ==
  /\ op # Null /\ op.name = "deleteUser" /\ op.pc = "userServices.deleteUser"
  /\ \/ /\ op' = [op EXCEPT !.pc = "delete", !.ok = FALSE, !.code = NETWORK_FAILED]
        /\ UNCHANGED provider
     \/ /\ CanNotify
        /\ accounts' = [accounts EXCEPT ![op.uid] = Null]
        /\ cur' = NoUid
        /\ events' = Notify(accounts, NoUid)
        /\ nextUid' = nextUid
        /\ op' = [op EXCEPT !.pc = "delete", !.ok = TRUE]
  /\ last' = Step("deleteUser", "await", op.uid)
  /\ UNCHANGED <<cbs, users, user, loading, error, isInitialized, isAnonymous>>
  /\ UNCHANGED budget
  /\ UNCHANGED <<route, lists, browser, service>>

\* resolved: setUser(null).  threw: setError, rethrow.  finally
deleteUser_return ==
  /\ op # Null /\ op.name = "deleteUser"
  /\ \/ /\ op.pc = "delete" /\ op.ok
        /\ user' = Null
        /\ error' = error
        /\ last' = Step("deleteUser", "resolved", op.uid)
     \/ /\ op.pc \in {"reauthenticate", "delete"} /\ ~op.ok
        /\ user' = user
        /\ error' = Err(op.code, MSG_PROVIDER)
        /\ last' = Step("deleteUser", "rejected", op.uid)
  /\ loading' = FALSE
  /\ op' = Null
  /\ UNCHANGED <<accounts, nextUid, cur, events, cbs, users, isInitialized,
                 isAnonymous>>
  /\ UNCHANGED budget
  /\ UNCHANGED <<route, lists, browser, service>>

\* ----------------------------------------------------------- updateEmail
\* `if (!firebaseAuth.currentUser) throw`
updateEmail_guard ==
  /\ CanInvoke
  /\ budget' = Spend
  /\ cur = NoUid
  /\ last' = Step("updateEmail", "rejected", cur)
  /\ UNCHANGED <<accounts, nextUid, cur, events, cbs, users, user, loading,
                 error, isInitialized, isAnonymous, op>>
  /\ UNCHANGED <<route, lists, browser, service>>

\* the credential updateEmail presents to the provider
updateEmail_credential(p) == credential(accounts[cur].email, p)

\* await reauthenticateWithCredential(currentUser, credential)
updateEmail_call ==
  /\ CanInvoke
  /\ budget' = Spend
  /\ cur # NoUid
  /\ \E e \in Emails, p \in Passwords :
       LET c == updateEmail_credential(p) IN
         op' = [name |-> "updateEmail", pc |-> "reauthenticate", uid |-> cur,
                ok |-> reauthenticateWithCredential(accounts, cur, c),
                code |-> WRONG_PASSWORD, cred |-> c, password |-> p,
                newEmail |-> e]
  /\ last' = Step("updateEmail", "await", cur)
  /\ UNCHANGED <<accounts, nextUid, cur, events, cbs, users, user, loading,
                 error, isInitialized, isAnonymous>>
  /\ UNCHANGED <<route, lists, browser, service>>

\* re-authenticated: await firebaseUpdateEmail(currentUser, newEmail)
updateEmail_firebaseUpdateEmail ==
  /\ op # Null /\ op.name = "updateEmail" /\ op.pc = "reauthenticate" /\ op.ok
  /\ IF \E u \in Uids \ {op.uid} : accounts[u] # Null /\ accounts[u].email = op.newEmail
       THEN /\ op' = [op EXCEPT !.pc = "firebaseUpdateEmail", !.ok = FALSE,
                                !.code = EMAIL_IN_USE]
            /\ accounts' = accounts
       ELSE \/ /\ op' = [op EXCEPT !.pc = "firebaseUpdateEmail", !.ok = FALSE,
                                   !.code = NETWORK_FAILED]
               /\ accounts' = accounts
            \/ /\ op' = [op EXCEPT !.pc = "firebaseUpdateEmail"]
               /\ accounts' = [accounts EXCEPT ![op.uid].email = op.newEmail]
  /\ last' = Step("updateEmail", "await", op.uid)
  /\ UNCHANGED <<nextUid, cur, events, cbs, users, user, loading, error,
                 isInitialized, isAnonymous>>
  /\ UNCHANGED budget
  /\ UNCHANGED <<route, lists, browser, service>>

\* await userServices.updateUser(uid, { email: newEmail })
updateEmail_updateUser ==
  /\ op # Null /\ op.name = "updateEmail" /\ op.pc = "firebaseUpdateEmail" /\ op.ok
  /\ \E ok \in BOOLEAN :
       LET r == updateUser(users, op.uid, [email |-> Some(op.newEmail)], Now, ok) IN
         /\ users' = r.store
         /\ op' = [op EXCEPT !.pc = "updateUser", !.ok = ~r.threw]
  /\ last' = Step("updateEmail", "await", op.uid)
  /\ UNCHANGED <<accounts, nextUid, cur, events, cbs, user, loading, error,
                 isInitialized, isAnonymous>>
  /\ UNCHANGED budget
  /\ UNCHANGED <<route, lists, browser, service>>

\* resolved: setUser(prev => prev ? {...prev, email} : null).  threw: rethrow
updateEmail_return ==
  /\ op # Null /\ op.name = "updateEmail"
  /\ \/ /\ op.pc = "updateUser" /\ op.ok
        /\ user' = IF user # Null THEN [user EXCEPT !.email = op.newEmail] ELSE Null
        /\ last' = Step("updateEmail", "resolved", op.uid)
     \/ /\ ~op.ok
        /\ user' = user
        /\ last' = Step("updateEmail", "rejected", op.uid)
  /\ op' = Null
  /\ UNCHANGED <<accounts, nextUid, cur, events, cbs, users, loading, error,
                 isInitialized, isAnonymous>>
  /\ UNCHANGED budget
  /\ UNCHANGED <<route, lists, browser, service>>

\* -------------------------------------------------------- changePassword
\* `if (!firebaseAuth.currentUser?.email) throw`
changePassword_guard ==
  /\ CanInvoke
  /\ budget' = Spend
  /\ currentUserEmail = ""
  /\ last' = Step("changePassword", "rejected", cur)
  /\ UNCHANGED <<accounts, nextUid, cur, events, cbs, users, user, loading,
                 error, isInitialized, isAnonymous, op>>
  /\ UNCHANGED <<route, lists, browser, service>>

\* the credential changePassword presents to the provider
changePassword_credential(p) == credential(accounts[cur].email, p)

\* a changePassword guarded like updateEmail, by the session alone
changePassword_call_anySession ==
  /\ CanInvoke
  /\ budget' = Spend
  /\ cur # NoUid
  /\ \E p \in Passwords, np \in Passwords :
       LET c == changePassword_credential(p) IN
         op' = [name |-> "changePassword", pc |-> "reauthenticate", uid |-> cur,
                ok |-> reauthenticateWithCredential(accounts, cur, c),
                code |-> WRONG_PASSWORD, cred |-> c, password |-> p,
                newPassword |-> np]
  /\ last' = Step("changePassword", "await", cur)
  /\ UNCHANGED <<accounts, nextUid, cur, events, cbs, users, user, loading,
                 error, isInitialized, isAnonymous>>
  /\ UNCHANGED <<route, lists, browser, service>>

\* await reauthenticateWithCredential(currentUser, credential)
changePassword_call ==
  /\ CanInvoke
  /\ budget' = Spend
  /\ currentUserEmail # ""
  /\ \E p \in Passwords, np \in Passwords :
       LET c == changePassword_credential(p) IN
         op' = [name |-> "changePassword", pc |-> "reauthenticate", uid |-> cur,
                ok |-> reauthenticateWithCredential(accounts, cur, c),
                code |-> WRONG_PASSWORD, cred |-> c, password |-> p,
                newPassword |-> np]
  /\ last' = Step("changePassword", "await", cur)
  /\ UNCHANGED <<accounts, nextUid, cur, events, cbs, users, user, loading,
                 error, isInitialized, isAnonymous>>
  /\ UNCHANGED <<route, lists, browser, service>>

\* re-authenticated: await updatePassword(currentUser, newPassword)
changePassword_updatePassword ==
  /\ op # Null /\ op.name = "changePassword" /\ op.pc = "reauthenticate" /\ op.ok
  /\ \/ /\ op' = [op EXCEPT !.pc = "updatePassword", !.ok = FALSE,
                            !.code = NETWORK_FAILED]
        /\ accounts' = accounts
     \/ /\ op' = [op EXCEPT !.pc = "updatePassword"]
        /\ accounts' = [accounts EXCEPT ![op.uid].pw = op.newPassword]
  /\ last' = Step("changePassword", "await", op.uid)
  /\ UNCHANGED <<nextUid, cur, events, cbs, users, user, loading, error,
                 isInitialized, isAnonymous>>
  /\ UNCHANGED budget
  /\ UNCHANGED <<route, lists, browser, service>>

changePassword_return ==
  /\ op # Null /\ op.name = "changePassword"
  /\ op.pc = "updatePassword" \/ ~op.ok
  /\ last' = Step("changePassword", IF op.ok THEN "resolved" ELSE "rejected", op.uid)
  /\ op' = Null
  /\ UNCHANGED <<accounts, nextUid, cur, events, cbs, users, user, loading,
                 error, isInitialized, isAnonymous>>
  /\ UNCHANGED budget
  /\ UNCHANGED <<route, lists, browser, service>>

\* -------------------------------------------------- sendPasswordResetEmail
\* setError(null); await firebaseSendPasswordResetEmail(auth, email)
sendPasswordResetEmail_call ==
  /\ CanInvoke
  /\ budget' = Spend
  /\ \E e \in Emails, ok \in BOOLEAN :
       op' = [name |-> "sendPasswordResetEmail", ok |-> ok,
              code |-> IF ok THEN "" ELSE NETWORK_FAILED, email |-> e]
  /\ error' = Null
  /\ last' = Step("sendPasswordResetEmail", "await", NoUid)
  /\ UNCHANGED <<accounts, nextUid, cur, events, cbs, users, user, loading,
                 isInitialized, isAnonymous>>
  /\ UNCHANGED <<route, lists, browser, service>>

\* resolved, or threw: setError({code || 'auth/error', message}); throw
sendPasswordResetEmail_return ==
  /\ op # Null /\ op.name = "sendPasswordResetEmail"
  /\ IF op.ok
       THEN /\ error' = error
            /\ last' = Step("sendPasswordResetEmail", "resolved", NoUid)
       ELSE /\ error' = Err(op.code, MSG_PROVIDER)
            /\ last' = Step("sendPasswordResetEmail", "rejected", NoUid)
  /\ op' = Null
  /\ UNCHANGED <<accounts, nextUid, cur, events, cbs, users, user, loading,
                 isInitialized, isAnonymous>>
  /\ UNCHANGED budget
  /\ UNCHANGED <<route, lists, browser, service>>

\* --------------------------------------------------- sendEmailVerification
\* `if (!auth.currentUser) throw`: rejected before anything is set
sendEmailVerification_guard ==
  /\ CanInvoke
  /\ budget' = Spend
  /\ cur = NoUid
  /\ last' = Step("sendEmailVerification", "rejected", cur)
  /\ UNCHANGED <<accounts, nextUid, cur, events, cbs, users, user, loading,
                 error, isInitialized, isAnonymous, op>>
  /\ UNCHANGED <<route, lists, browser, service>>

\* setLoading(true); setError(null); await sendVerificationEmail(currentUser)
sendEmailVerification_call ==
  /\ CanInvoke
  /\ budget' = Spend
  /\ cur # NoUid
  /\ \E ok \in BOOLEAN :
       /\ op' = [name |-> "sendEmailVerification", ok |-> ok,
                 code |-> IF ok THEN "" ELSE NETWORK_FAILED, uid |-> cur]
       /\ accounts' = IF ok THEN [accounts EXCEPT ![cur].mailed = TRUE]
                            ELSE accounts
  /\ loading' = TRUE
  /\ error' = Null
  /\ last' = Step("sendEmailVerification", "await", cur)
  /\ UNCHANGED <<nextUid, cur, events, cbs, users, user,
                 isInitialized, isAnonymous>>
  /\ UNCHANGED <<route, lists, browser, service>>

\* resolved, or threw: setError, rethrow.  finally: setLoading(false)
sendEmailVerification_return ==
  /\ op # Null /\ op.name = "sendEmailVerification"
  /\ IF op.ok
       THEN /\ error' = error
            /\ last' = Step("sendEmailVerification", "resolved", op.uid)
       ELSE /\ error' = Err(op.code, MSG_PROVIDER)
            /\ last' = Step("sendEmailVerification", "rejected", op.uid)
  /\ loading' = FALSE
  /\ op' = Null
  /\ UNCHANGED <<accounts, nextUid, cur, events, cbs, users, user,
                 isInitialized, isAnonymous>>
  /\ UNCHANGED budget
  /\ UNCHANGED <<route, lists, browser, service>>

\* ------------------------------------- signInWithGoogle / signInWithApple
\* the provider's answer to signInWithPopup for the identity with email e:
\* the uid signed in (nextUid for a new account), or NoUid with a code
PopupUid(e) ==
  IF \E u \in Uids : accounts[u] # Null /\ accounts[u].email = e /\ accounts[u].pw = ""
    THEN CHOOSE u \in Uids : accounts[u] # Null /\ accounts[u].email = e
  ELSE IF Registered(e) THEN NoUid
  ELSE nextUid

\* setError(null); await signInWithPopup(auth, provider)
signInWithPopup_call(name) ==
  /\ CanInvoke
  /\ budget' = Spend
  /\ \/ /\ op' = [name |-> name, pc |-> "signInWithPopup", ok |-> FALSE,
                  code |-> POPUP_CLOSED, uid |-> NoUid, doc |-> Null]
        /\ UNCHANGED provider
     \/ \E e \in SocialEmails :
          LET u == PopupUid(e) IN
            IF u = NoUid
              THEN /\ op' = [name |-> name, pc |-> "signInWithPopup", ok |-> FALSE,
                             code |-> ACCOUNT_EXISTS, uid |-> NoUid, doc |-> Null]
                   /\ UNCHANGED provider
              ELSE /\ u <= MaxUid
                   /\ u = cur \/ CanNotify
                   /\ accounts' = [accounts EXCEPT ![u] =
                                     IF accounts[u] # Null THEN accounts[u]
                                     ELSE SocialAccount(e)]
                   /\ nextUid' = IF u = nextUid THEN nextUid + 1 ELSE nextUid
                   /\ cur' = u
                   /\ events' = Notify(accounts', u)
                   /\ op' = [name |-> name, pc |-> "signInWithPopup", ok |-> TRUE,
                             code |-> "", uid |-> u, doc |-> Null]
  /\ error' = Null
  /\ last' = Step(name, "await", NoUid)
  /\ UNCHANGED <<cbs, users, user, loading, isInitialized, isAnonymous>>
  /\ UNCHANGED <<route, lists, browser, service>>

\* the popup resolved: const userDoc = await userServices.getUser(uid)
signInWithPopup_getUser(name) ==
  /\ op # Null /\ op.name = name /\ op.pc = "signInWithPopup" /\ op.ok
  /\ \E ok \in BOOLEAN :
       LET r == getUser(users, op.uid, ok) IN
         op' = [op EXCEPT !.pc = "getUser", !.ok = ~r.threw, !.doc = r.value,
                          !.code = ""]
  /\ last' = Step(name, "await", op.uid)
  /\ UNCHANGED <<accounts, nextUid, cur, events, cbs, users, user, loading,
                 error, isInitialized, isAnonymous>>
  /\ UNCHANGED budget
  /\ UNCHANGED <<route, lists, browser, service>>

\* an optional string field of a record or of the provider's user object,
\* "" when it has none
fieldOf(object, k) == IF k \in DOMAIN object THEN object[k] ELSE ""

\* userCredential.email?.split('@')[0]
localPart(e) ==
  CASE e = "g@x.com" -> "g"
    [] e = "a@x.com" -> "a"
    [] e = "b@x.com" -> "b"
    [] OTHER -> ""

\* metadata.preferences of a record the social sign-in creates
DefaultPreferences ==
  [theme |-> "system", notifications |-> [email |-> TRUE, push |-> TRUE]]

\* `...(userCredential.photoURL && { photoURL: userCredential.photoURL })`
withPhoto(record, photo) ==
  IF photo = "" THEN record
  ELSE [k \in DOMAIN record \cup {"photoURL"} |->
          IF k = "photoURL" THEN photo ELSE record[k]]

\* the record the social sign-in writes for a new account
signInWithPopup_userData(name, uid) ==
  LET a == accounts[uid]
      fallback == IF name = "signInWithApple" THEN "Apple User" ELSE "User"
      base == [id |-> uid, email |-> a.email,
               displayName |-> IF fieldOf(a, "displayName") # "" THEN fieldOf(a, "displayName")
                               ELSE IF localPart(a.email) # "" THEN localPart(a.email)
                               ELSE fallback,
               password |-> "", isActive |-> TRUE, role |-> "user",
               metadata |-> [lastLogin |-> Now, failedLoginAttempts |-> 0,
                             preferences |-> DefaultPreferences]]
  IN IF name = "signInWithApple"
       THEN withPhoto([k \in DOMAIN base \cup {"emailVerified", "createdAt", "updatedAt"} |->
                         IF k = "emailVerified" THEN a.verified
                         ELSE IF k \in {"createdAt", "updatedAt"} THEN Now
                         ELSE base[k]],
                      fieldOf(a, "photoURL"))
       ELSE withPhoto(base, fieldOf(a, "photoURL"))

\* a patch whose metadata map holds the new lastLogin and nothing else
signInWithPopup_updateData_freshMetadata(name, uid, userDoc) ==
  [updatedAt |-> Some(Now), photoURL |-> None, displayName |-> None,
   metadata |-> Some([lastLogin |-> Now])]

\* the patch the social sign-in passes to updateUser for an existing record:
\* Google names the field path metadata.lastLogin, Apple passes the metadata
\* map it read with lastLogin replaced
signInWithPopup_updateData(name, uid, userDoc) ==
  LET a == accounts[uid]
      common ==
        [updatedAt |-> Some(Now),
         photoURL |-> IF fieldOf(a, "photoURL") # "" /\ fieldOf(a, "photoURL") # fieldOf(userDoc, "photoURL")
                        THEN Some(fieldOf(a, "photoURL")) ELSE None,
         displayName |-> IF fieldOf(a, "displayName") # ""
                            /\ fieldOf(a, "displayName") # fieldOf(userDoc, "displayName")
                           THEN Some(fieldOf(a, "displayName")) ELSE None]
      m == IF "metadata" \in DOMAIN userDoc THEN userDoc.metadata
           ELSE [k \in {} |-> Null]
      key == IF name = "signInWithApple" THEN "metadata" ELSE LAST_LOGIN_PATH
      value == IF name = "signInWithApple"
                 THEN Some([j \in DOMAIN m \cup {"lastLogin"} |->
                              IF j = "lastLogin" THEN Now ELSE m[j]])
                 ELSE Some(Now)
  IN [k \in DOMAIN common \cup {key} |-> IF k = key THEN value ELSE common[k]]

\* no record: await createUser(userData).  a record: await updateUser(uid, ...)
signInWithPopup_write(name) ==
  /\ op # Null /\ op.name = name /\ op.pc = "getUser" /\ op.ok
  /\ \E ok \in BOOLEAN :
       LET r == IF op.doc = Null
                  THEN createUser(users, signInWithPopup_userData(name, op.uid),
                                  Now, Now, ok)
                  ELSE updateUser(users, op.uid,
                                  signInWithPopup_updateData(name, op.uid, op.doc),
                                  Now, ok) IN
         /\ users' = r.store
         /\ op' = [op EXCEPT !.pc = "write", !.ok = ~r.threw]
  /\ last' = Step(name, "await", op.uid)
  /\ UNCHANGED <<accounts, nextUid, cur, events, cbs, user, loading, error,
                 isInitialized, isAnonymous>>
  /\ UNCHANGED budget
  /\ UNCHANGED <<route, lists, browser, service>>

\* resolved, or an await threw: setError({code || 'auth/error', ...}); throw
signInWithPopup_return(name) ==
  /\ op # Null /\ op.name = name
  /\ \/ /\ op.pc = "write" /\ op.ok
        /\ error' = error
        /\ last' = Step(name, "resolved", op.uid)
     \/ /\ ~op.ok
        /\ error' = Err(IF op.code # "" THEN op.code ELSE AUTH_ERROR, MSG_PROVIDER)
        /\ last' = Step(name, "rejected", op.uid)
  /\ op' = Null
  /\ UNCHANGED <<accounts, nextUid, cur, events, cbs, users, user, loading,
                 isInitialized, isAnonymous>>
  /\ UNCHANGED budget
  /\ UNCHANGED <<route, lists, browser, service>>

signInWithGoogle_call == signInWithPopup_call("signInWithGoogle")
signInWithGoogle_getUser == signInWithPopup_getUser("signInWithGoogle")
signInWithGoogle_write == signInWithPopup_write("signInWithGoogle")
signInWithGoogle_return == signInWithPopup_return("signInWithGoogle")

\* `if (!isIosOrSafari())`: setError(unsupported-browser); throw
signInWithApple_unsupported ==
  /\ CanInvoke
  /\ ~isIosOrSafari
  /\ budget' = Spend
  /\ error' = Err(UNSUPPORTED_BROWSER, MSG_APPLE)
  /\ last' = Step("signInWithApple", "rejected", NoUid)
  /\ UNCHANGED <<accounts, nextUid, cur, events, cbs, users, user, loading,
                 isInitialized, isAnonymous, op>>
  /\ UNCHANGED <<route, lists, browser, service>>

signInWithApple_call == isIosOrSafari /\ signInWithPopup_call("signInWithApple")
signInWithApple_getUser == signInWithPopup_getUser("signInWithApple")
signInWithApple_write == signInWithPopup_write("signInWithApple")
signInWithApple_return == signInWithPopup_return("signInWithApple")

\* ------------------------------ linkWithEmail / linkWithGoogle / linkWithApple
\* `if (!auth.currentUser) throw` (linkWithApple: `if (!isIosOrSafari()) throw`
\* comes first): rejected before anything is set
linkWith_guard(name) ==
  /\ CanInvoke
  /\ budget' = Spend
  /\ cur = NoUid \/ (name = "linkWithApple" /\ ~isIosOrSafari)
  /\ last' = Step(name, "rejected", cur)
  /\ UNCHANGED <<accounts, nextUid, cur, events, cbs, users, user, loading,
                 error, isInitialized, isAnonymous, op>>
  /\ UNCHANGED <<route, lists, browser, service>>

\* the account after the provider linked a credential for (e, p) to it
Linked(a, e, p) ==
  [email |-> IF a.email = "" THEN e ELSE a.email,
   pw |-> IF p = "" THEN a.pw ELSE p,
   anon |-> FALSE,
   verified |-> IF p = "" THEN TRUE ELSE a.verified,
   mailed |-> a.mailed]

\* setLoading(true); setError(null); await linkWithCredential / linkWithPopup
linkWith_call(name) ==
  /\ CanInvoke
  /\ budget' = Spend
  /\ cur # NoUid
  /\ name = "linkWithApple" => isIosOrSafari
  /\ \E e \in (IF name = "linkWithEmail" THEN Emails ELSE SocialEmails),
        p \in (IF name = "linkWithEmail" THEN Passwords ELSE {""}) :
       IF \E u \in Uids \ {cur} : accounts[u] # Null /\ accounts[u].email = e
         THEN /\ op' = [name |-> name, ok |-> FALSE, code |-> EMAIL_IN_USE]
              /\ accounts' = accounts
       ELSE IF name = "linkWithEmail" /\ accounts[cur].pw # ""
         THEN /\ op' = [name |-> name, ok |-> FALSE, code |-> PROVIDER_LINKED]
              /\ accounts' = accounts
       ELSE /\ op' = [name |-> name, ok |-> TRUE, code |-> ""]
            /\ accounts' = [accounts EXCEPT ![cur] = Linked(@, e, p)]
  /\ loading' = TRUE
  /\ error' = Null
  /\ last' = Step(name, "await", cur)
  /\ UNCHANGED <<nextUid, cur, events, cbs, users, user, isInitialized, isAnonymous>>
  /\ UNCHANGED <<route, lists, browser, service>>

\* getAuthErrorMessage: the fixed table, else the provider's message
getAuthErrorMessage(code) ==
  IF code = EMAIL_IN_USE THEN MSG_EMAIL_IN_USE ELSE MSG_PROVIDER

\* threw: setError, rethrow.  finally: setLoading(false)
linkWith_return(name) ==
  /\ op # Null /\ op.name = name
  /\ IF op.ok
       THEN /\ error' = error
            /\ last' = Step(name, "resolved", cur)
       ELSE /\ error' = Err(op.code, getAuthErrorMessage(op.code))
            /\ last' = Step(name, "rejected", cur)
  /\ loading' = FALSE
  /\ op' = Null
  /\ UNCHANGED <<accounts, nextUid, cur, events, cbs, users, user,
                 isInitialized, isAnonymous>>
  /\ UNCHANGED budget
  /\ UNCHANGED <<route, lists, browser, service>>

linkWithEmail_guard == linkWith_guard("linkWithEmail")
linkWithEmail_call == linkWith_call("linkWithEmail")
linkWithEmail_return == linkWith_return("linkWithEmail")
linkWithGoogle_guard == linkWith_guard("linkWithGoogle")
linkWithGoogle_call == linkWith_call("linkWithGoogle")
linkWithGoogle_return == linkWith_return("linkWithGoogle")
linkWithApple_guard == linkWith_guard("linkWithApple")
linkWithApple_call == linkWith_call("linkWithApple")
linkWithApple_return == linkWith_return("linkWithApple")

\* ------------------------------------------------------------------- Next
\* every operation that asks the provider for a session change or a link
Next ==
  \/ Listener
  \/ signUp_call
  \/ signUp_createUser
  \/ signUp_return
  \/ signIn_call
  \/ signIn_return
  \/ signInAnonymously_call
  \/ signInAnonymously_return
  \/ signOut_call
  \/ signOut_return
  \/ signInWithGoogle_call
  \/ signInWithGoogle_getUser
  \/ signInWithGoogle_write
  \/ signInWithGoogle_return
  \/ signInWithApple_unsupported
  \/ signInWithApple_call
  \/ signInWithApple_getUser
  \/ signInWithApple_write
  \/ signInWithApple_return
  \/ linkWithEmail_guard
  \/ linkWithEmail_call
  \/ linkWithEmail_return
  \/ linkWithGoogle_guard
  \/ linkWithGoogle_call
  \/ linkWithGoogle_return
  \/ linkWithApple_guard
  \/ linkWithApple_call
  \/ linkWithApple_return

\* sign-up, email sign-in, anonymous sign-in and sign-out, with the listener
NextSession ==
  \/ Listener
  \/ signUp_call
  \/ signUp_createUser
  \/ signUp_return
  \/ signIn_call
  \/ signIn_return
  \/ signInAnonymously_call
  \/ signInAnonymously_return
  \/ signOut_call
  \/ signOut_return

Spec == Init /\ [][NextSession]_vars

\* MaxOps invocations in a behaviour
InitAll ==
  /\ NoAccounts
  /\ AuthProvider
  /\ budget = MaxOps
  /\ Elsewhere
  /\ userAgent \in {MacSafari, DesktopChrome}
  /\ NoCalls

SpecAll == InitAll /\ [][Next]_vars

\* the re-authentication-gated account operations, with the listener
NextAccount ==
  \/ Listener
  \/ signUp_call
  \/ signUp_createUser
  \/ signUp_return
  \/ signInAnonymously_call
  \/ signInAnonymously_return
  \/ signOut_call
  \/ signOut_return
  \/ deleteUser_guard
  \/ deleteUser_call
  \/ deleteUser_record
  \/ deleteUser_account
  \/ deleteUser_return
  \/ updateEmail_guard
  \/ updateEmail_call
  \/ updateEmail_firebaseUpdateEmail
  \/ updateEmail_updateUser
  \/ updateEmail_return
  \/ changePassword_guard
  \/ changePassword_call
  \/ changePassword_updatePassword
  \/ changePassword_return
  \/ sendPasswordResetEmail_call
  \/ sendPasswordResetEmail_return
  \/ sendEmailVerification_guard
  \/ sendEmailVerification_call
  \/ sendEmailVerification_return

\* the Apple operations in every browser, with anonymous sign-in
InitApple ==
  /\ NoAccounts
  /\ AuthProvider
  /\ budget = MaxOps
  /\ Elsewhere
  /\ userAgent \in UserAgents
  /\ NoCalls

NextApple ==
  \/ Listener
  \/ signInAnonymously_call
  \/ signInAnonymously_return
  \/ signInWithApple_unsupported
  \/ signInWithApple_call
  \/ signInWithApple_getUser
  \/ signInWithApple_write
  \/ signInWithApple_return
  \/ linkWithApple_guard
  \/ linkWithApple_call
  \/ linkWithApple_return

SpecApple == InitApple /\ [][NextApple]_vars

\* MaxOps invocations in a behaviour, in one browser
InitAccount ==
  /\ NoAccounts
  /\ AuthProvider
  /\ budget = MaxOps
  /\ Elsewhere
  /\ userAgent = MacSafari
  /\ NoCalls

SpecAccount == InitAccount /\ [][NextAccount]_vars

\* ------------------------------------------ returning social identities
Past == "past"       \* a timestamp written before this behaviour began

\* the profile the provider holds for the returning identity
SocialNames == {"", "Ann", "Bea"}
SocialPhotos == {"", "ann.png"}

\* the record an earlier sign-in with the default profile created
CreatedRecord ==
  [id |-> 1, email |-> "g@x.com", displayName |-> "Ann", password |-> "",
   photoURL |-> "ann.png", isActive |-> TRUE, role |-> "user",
   metadata |-> [lastLogin |-> Past, failedLoginAttempts |-> 0,
                 preferences |-> DefaultPreferences],
   createdAt |-> Past, updatedAt |-> Past]

\* the same record after the profile page, the settings page and an
\* administrator edited it
EditedRecord ==
  [id |-> 1, email |-> "g@x.com", displayName |-> "Zed", password |-> "",
   photoURL |-> "zed.png", isActive |-> FALSE, role |-> "admin",
   metadata |-> [lastLogin |-> Past, failedLoginAttempts |-> 0,
                 preferences |-> [theme |-> "dark",
                                  notifications |-> [email |-> FALSE, push |-> TRUE]]],
   createdAt |-> Past, updatedAt |-> Past]

\* a record created for an identity without a photo
PlainRecord ==
  [id |-> 1, email |-> "g@x.com", displayName |-> "g", password |-> "",
   isActive |-> TRUE, role |-> "user",
   metadata |-> [lastLogin |-> Past, failedLoginAttempts |-> 0,
                 preferences |-> DefaultPreferences],
   createdAt |-> Past, updatedAt |-> Past]

StoredRecords == {CreatedRecord, EditedRecord, PlainRecord}

\* a Google / Apple identity that signed in before and is signed out now; its
\* record is one of StoredRecords, or was never written
InitSocial ==
  /\ \E name \in SocialNames, photo \in SocialPhotos :
       accounts = [u \in Uids |->
                     IF u = 1 THEN SocialProfile("g@x.com", name, photo) ELSE Null]
  /\ nextUid = 2
  /\ cur = NoUid
  /\ events = <<Null>>
  /\ \E r \in StoredRecords \cup {Null} :
       users = [u \in Uids |-> IF u = 1 THEN r ELSE Null]
  /\ AuthProvider
  /\ budget = MaxOps
  /\ Elsewhere
  /\ userAgent = MacSafari
  /\ NoCalls

NextSocial ==
  \/ onAuthStateChanged_null
  \/ onAuthStateChanged_user
  \/ onAuthStateChanged_error
  \/ signInWithGoogle_call
  \/ signInWithGoogle_getUser
  \/ signInWithGoogle_write
  \/ signInWithGoogle_return
  \/ signInWithApple_call
  \/ signInWithApple_getUser
  \/ signInWithApple_write
  \/ signInWithApple_return
  \/ signOut_call
  \/ signOut_return

SpecSocial == InitSocial /\ [][NextSocial]_vars

\* ------------------------------------------- userServices, called directly
Epoch == 0           \* a timestamp older than every clock read of a behaviour

\* the arguments of createUser: with or without stamps of the caller's own
UserInput(id, e, name) ==
  [id |-> id, email |-> e, displayName |-> name, password |-> "",
   isActive |-> TRUE, role |-> "user"]
UserInputs ==
  LET plain == {UserInput(id, "a@x.com", "Ann") : id \in Uids}
                 \cup {UserInput(id, "b@x.com", "Bea") : id \in Uids}
  IN plain \cup {stamped(i, Epoch, Epoch) : i \in plain}

\* the patches of updateUser: None stands for a null or undefined value; a
\* caller that passes updatedAt passes the clock it has just read
UserUpdates(now) ==
  [displayName : {None, Some("Cy")},
   isActive : {None, Some(FALSE)},
   photoURL : {None},
   updatedAt : {None, Some(now)}]

\* the store request of a call that the store failed, and the error it gave
Fault(at, code) == [at |-> at, code |-> code]
FaultOf(at, answer) == IF answer = "ok" THEN Null ELSE Fault(at, answer)

\* what a call handed back: the function and its arguments, the clock it
\* read, the failure the store injected, and the call's return value or the
\* error it threw (a call that throws with no injected failure has sent
\* updateDoc for a document that does not exist)
Return(fn, id, arg, now, outcome, value, fault) ==
  [fn |-> fn, id |-> id, arg |-> arg, now |-> now, fault |-> fault,
   threw |-> outcome.threw, writes |-> outcome.writes, value |-> value,
   error |-> IF outcome.threw
               THEN rethrown(fn, IF fault = Null THEN NOT_FOUND ELSE fault.code)
               ELSE Null]

\* the Step a call leaves in `last`
Called(fn, id, threw) ==
  Step("userServices." \o fn, IF threw THEN "rejected" ELSE "resolved", id)

\* the milliseconds that pass between two reads of the clock
Elapsed == {0, 1}

\* the store answers a request, or fails it with one of its errors
StoreAnswers == {"ok"} \cup StoreErrors

userServices_createUser ==
  /\ budget # 0
  /\ budget' = Spend
  /\ \E input \in UserInputs, e \in Elapsed, answer \in StoreAnswers :
       LET created == clock
           updated == created + e
           r == createUser(users, input, created, updated, answer = "ok") IN
         /\ users' = r.store
         /\ clock' = updated
         /\ ret' = Return("createUser", input.id, input, created, r, Null,
                        FaultOf("setDoc", answer))
         /\ last' = Called("createUser", input.id, r.threw)
  /\ UNCHANGED <<accounts, nextUid, cur, events, cbs, user, loading, error,
                 isInitialized, isAnonymous, op>>
  /\ UNCHANGED <<route, lists, browser>>

userServices_getUser ==
  /\ budget # 0
  /\ budget' = Spend
  /\ \E id \in Uids, answer \in StoreAnswers :
       LET r == getUser(users, id, answer = "ok") IN
         /\ ret' = Return("getUser", id, Null, clock,
                          Outcome(users, r.threw, <<>>), r.value,
                          FaultOf("getDoc", answer))
         /\ last' = Called("getUser", id, r.threw)
  /\ UNCHANGED <<accounts, nextUid, cur, events, cbs, users, user, loading, error,
                 isInitialized, isAnonymous, op>>
  /\ UNCHANGED <<route, lists, browser, clock>>

userServices_updateUser ==
  /\ budget # 0
  /\ budget' = Spend
  /\ \E id \in Uids, e \in Elapsed, answer \in StoreAnswers :
       \E updates \in UserUpdates(clock) :
         LET now == clock + e
             r == updateUser(users, id, updates, now, answer = "ok") IN
           /\ users' = r.store
           /\ clock' = now
           /\ ret' = Return("updateUser", id, updates, now, r, Null,
                            FaultOf("updateDoc", answer))
           /\ last' = Called("updateUser", id, r.threw)
  /\ UNCHANGED <<accounts, nextUid, cur, events, cbs, user, loading, error,
                 isInitialized, isAnonymous, op>>
  /\ UNCHANGED <<route, lists, browser>>

userServices_deactivateUser ==
  /\ budget # 0
  /\ budget' = Spend
  /\ \E id \in Uids, answer \in StoreAnswers :
       LET now == clock
           r == deactivateUser(users, id, now, answer = "ok") IN
         /\ users' = r.store
         /\ clock' = now
         /\ ret' = Return("deactivateUser", id, Null, now, r, Null,
                          FaultOf("updateDoc", answer))
         /\ last' = Called("deactivateUser", id, r.threw)
  /\ UNCHANGED <<accounts, nextUid, cur, events, cbs, user, loading, error,
                 isInitialized, isAnonymous, op>>
  /\ UNCHANGED <<route, lists, browser>>

userServices_deleteUser_call ==
  /\ budget # 0
  /\ budget' = Spend
  /\ \E id \in Uids, failAt \in DeleteFailures, e \in StoreErrors :
       LET now == clock
           fault == IF failAt = "none" THEN Null ELSE Fault(failAt, e)
           r == userServices_deleteUser(users, id, now, failAt) IN
         /\ users' = r.store
         /\ clock' = now
         /\ ret' = Return("deleteUser", id, Null, now, r, Null, fault)
         /\ last' = Called("deleteUser", id, r.threw)
  /\ UNCHANGED <<accounts, nextUid, cur, events, cbs, user, loading, error,
                 isInitialized, isAnonymous, op>>
  /\ UNCHANGED <<route, lists, browser>>

\* the record of a user who signed up at Epoch
StoredUser == stamped(UserInput(1, "a@x.com", "Ann"), Epoch, Epoch)

\* a client of userServices with one record, or none, in the store
InitUsers ==
  /\ accounts = [u \in Uids |-> Null]
  /\ nextUid = 1
  /\ cur = NoUid
  /\ events = <<>>
  /\ \E r \in {StoredUser, Null} : users = [u \in Uids |-> IF u = 1 THEN r ELSE Null]
  /\ AuthProvider
  /\ budget = MaxCalls
  /\ Elsewhere
  /\ userAgent = MacSafari
  /\ clock = 1
  /\ ret = Null

NextUsers ==
  \/ userServices_createUser
  \/ userServices_getUser
  \/ userServices_updateUser
  \/ userServices_deactivateUser
  \/ userServices_deleteUser_call

SpecUsers == InitUsers /\ [][NextUsers]_vars

\* ------------------------------------------------------------ route guard
\* the `loading` the context exposes: loading || !isInitialized
value_loading == loading \/ ~isInitialized

\* what a guard renders
Placeholder == [render |-> "placeholder", to |-> NoPath, from |-> NoPath]
Children == [render |-> "children", to |-> NoPath, from |-> NoPath]
Navigate(to, from) == [render |-> "Navigate", to |-> to, from |-> from]

\* a guard that looks at `user` before it looks at the loading flag
ProtectedRoute_userFirst(u, ld, init, requireEmailVerification, loc) ==
  IF u # Null
    THEN IF requireEmailVerification /\ ~u.emailVerified
           THEN Navigate("/verify-email", loc)
           ELSE Children
  ELSE IF ld \/ ~init THEN Placeholder
  ELSE Navigate("/login", loc)

\* ProtectedRoute.tsx, rendered at path loc
ProtectedRoute(u, ld, init, requireEmailVerification, loc) ==
  IF ld \/ ~init THEN Placeholder
  ELSE IF u = Null
    THEN IF ~init THEN Placeholder ELSE Navigate("/login", loc)
  ELSE IF requireEmailVerification /\ ~u.emailVerified
    THEN Navigate("/verify-email", loc)
  ELSE Children

\* AuthLayout.tsx
AuthLayout(u, ld) ==
  IF ld THEN Placeholder
  ELSE IF u # Null THEN Navigate("/dashboard", NoPath)
  ELSE Children

\* App.tsx: the routes under AuthLayout and under <ProtectedRoute />
PublicPaths == {"/login", "/signup", "/verify-email"}
ProtectedPaths == {"/dashboard", "/settings", "/checklists"}
Paths == PublicPaths \cup ProtectedPaths

\* the other paths the route table answers: a checklist's page and the
\* password page, and the index and catch-all routes under the guard
GuardedPaths == ProtectedPaths \cup {"/checklists/1", "/", "/nowhere"}
AllPaths == PublicPaths \cup {"/forgot-password"} \cup GuardedPaths

\* what the route element at path p renders: the routes under
\* <ProtectedRoute /> (App.tsx passes it no prop, so verifiedOnly is FALSE
\* there), the others under AuthLayout
RouteAt(p) ==
  IF p \in GuardedPaths
    THEN ProtectedRoute(user, value_loading, isInitialized, verifiedOnly, p)
    ELSE AuthLayout(user, value_loading)

\* what the route element at the current location renders
Routes == RouteAt(location)

\* the user opens a URL or follows a link
Router_navigate ==
  /\ \E p \in Paths : location' = p
  /\ navFrom' = NoPath
  /\ last' = Step("router", "navigate", NoUid)
  /\ UNCHANGED <<accounts, nextUid, cur, events, cbs, users, user, loading,
                 error, isInitialized, isAnonymous, op, budget, lists, browser, service>>

\* the route element renders <Navigate to=... state={{ from }} replace />;
\* AuthProvider renders its children only once initialized
Routes_redirect ==
  /\ isInitialized
  /\ Routes.render = "Navigate"
  /\ location' = Routes.to
  /\ navFrom' = Routes.from
  /\ last' = Step("router", "redirect", NoUid)
  /\ UNCHANGED <<accounts, nextUid, cur, events, cbs, users, user, loading,
                 error, isInitialized, isAnonymous, op, budget, lists, browser, service>>

\* LoginPage.handleSubmit: await signIn(email, password), from the login form
LoginPage_handleSubmit ==
  /\ CanInvoke
  /\ budget' = Spend
  /\ location = "/login"
  /\ Routes.render = "children"
  /\ \E e \in Emails, p \in Passwords :
       \/ /\ SignInMatch(e, p) = {}
          /\ op' = [name |-> "signIn", pc |-> "firebaseSignIn", ok |-> FALSE,
                    code |-> WRONG_PASSWORD, page |-> TRUE]
          /\ UNCHANGED provider
       \/ \E u \in SignInMatch(e, p) :
            /\ u = cur \/ CanNotify
            /\ cur' = u
            /\ events' = Notify(accounts, u)
            /\ op' = [name |-> "signIn", pc |-> "firebaseSignIn", ok |-> TRUE,
                      code |-> "", page |-> TRUE]
            /\ UNCHANGED <<accounts, nextUid>>
  /\ error' = Null
  /\ last' = Step("signIn", "await", NoUid)
  /\ UNCHANGED <<cbs, users, user, loading, isInitialized, isAnonymous>>
  /\ UNCHANGED <<route, lists, browser, service>>

\* a returning visitor: an account with its record exists, and the browser
\* may hold its session; any URL may be the first one opened
InitRoute ==
  /\ accounts = [u \in Uids |-> IF u = 1 THEN PasswordAccount("a@x.com", "pw1")
                               ELSE Null]
  /\ users = [u \in Uids |-> IF u = 1 THEN signUp_userData(1, "a@x.com") ELSE Null]
  /\ nextUid = 2
  /\ \/ cur = NoUid /\ events = <<Null>>
     \/ cur = 1 /\ events = <<FirebaseUser(accounts, 1)>>
  /\ AuthProvider
  /\ budget = Unlimited
  /\ location \in Paths
  /\ navFrom = NoPath
  /\ verifiedOnly = FALSE
  /\ userAgent = MacSafari
  /\ NoCalls
  /\ checklists = NoChecklists
  /\ calls = <<>>
  /\ hist = <<>>

\* the router with email sign-in and sign-out
NextRoute ==
  \/ onAuthStateChanged_null
  \/ onAuthStateChanged_user
  \/ Router_navigate
  \/ Routes_redirect
  \/ LoginPage_handleSubmit
  \/ signIn_return
  \/ signOut_call
  \/ signOut_return

SpecRoute == InitRoute /\ [][NextRoute]_vars

\* -------------------------------------------------------- checklistService

ItemIds == {"i1", "i2"}
\* Partial<Omit<ChecklistItem, 'id' | 'createdAt'>>
ItemUpdates ==
  {[title |-> Some("t2"), completed |-> None],
   [title |-> None, completed |-> Some(TRUE)]}

\* a ChecklistItem never updated has no updatedAt (0)
Item(id, title) ==
  [id |-> id, title |-> title, completed |-> FALSE, updatedAt |-> 0]
InitialItems == <<Item("i1", "t1"), Item("i2", "t1")>>
Checklist(items) == [items |-> items, updatedAt |-> 0]

\* { ...item, ...updates, updatedAt: new Date() }
updatedItem(item, updates, now) ==
  [k \in DOMAIN item \cup {"updatedAt"} |->
     IF k = "updatedAt" THEN now
     ELSE IF k \in DOMAIN updates /\ updates[k] # None THEN updates[k][1]
     ELSE item[k]]

\* a map that forgets the id test
updatedItems_every(items, itemId, updates, now) ==
  [k \in 1..Len(items) |-> updatedItem(items[k], updates, now)]

\* (checklist.items || []).map(item => item.id === itemId ? {...} : item)
updatedItems(items, itemId, updates, now) ==
  [k \in 1..Len(items) |->
     IF items[k].id = itemId THEN updatedItem(items[k], updates, now)
     ELSE items[k]]

\* new Date(): the store operations so far order the clock
Clock == Len(hist) + 1

\* updateChecklistItem is called: getDoc reads the document
updateChecklistItem_call ==
  /\ Len(calls) < MaxCalls
  /\ \E c \in ChecklistIds, itemId \in ItemIds, updates \in ItemUpdates,
        ok \in BOOLEAN :
       /\ calls' = Append(calls,
            [checklistId |-> c, itemId |-> itemId, updates |-> updates,
             pc |-> "getDoc", ok |-> ok,
             doc |-> IF ok THEN checklists[c] ELSE Null])
       /\ hist' = IF ok THEN Append(hist, [kind |-> "read", call |-> Len(calls) + 1])
                  ELSE hist
  /\ last' = Step("updateChecklistItem", "await", NoUid)
  /\ UNCHANGED <<accounts, nextUid, cur, events, cbs, users, user, loading,
                 error, isInitialized, isAnonymous, op, budget, route,
                 browser, service, checklists>>

\* after getDoc: absent document or failed read throws into the catch; else
\* the items are mapped from the document read and updateDoc writes them
updateChecklistItem_updateDoc ==
  \E i \in 1..Len(calls) :
    /\ calls[i].pc = "getDoc"
    /\ IF ~calls[i].ok \/ calls[i].doc = Null
         THEN /\ calls' = [calls EXCEPT ![i].pc = "rejected"]
              /\ UNCHANGED <<checklists, hist>>
         ELSE \E ok \in BOOLEAN :
                LET c == calls[i].checklistId
                    wrote == ok /\ checklists[c] # Null
                IN /\ calls' = [calls EXCEPT ![i].pc = "updateDoc",
                                             ![i].ok = wrote]
                   /\ checklists' =
                        IF wrote
                          THEN [checklists EXCEPT ![c] =
                                 [items |-> updatedItems(calls[i].doc.items,
                                              calls[i].itemId,
                                              calls[i].updates, Clock),
                                  updatedAt |-> Clock]]
                          ELSE checklists
                   /\ hist' = IF wrote
                                THEN Append(hist, [kind |-> "write", call |-> i])
                                ELSE hist
    /\ last' = Step("updateChecklistItem", "await", NoUid)
    /\ UNCHANGED <<accounts, nextUid, cur, events, cbs, users, user, loading,
                   error, isInitialized, isAnonymous, op, budget, route, browser, service>>

\* after updateDoc: the promise resolves, or the catch rethrows
updateChecklistItem_return ==
  \E i \in 1..Len(calls) :
    /\ calls[i].pc = "updateDoc"
    /\ calls' = [calls EXCEPT ![i].pc = IF calls[i].ok THEN "resolved"
                                        ELSE "rejected"]
    /\ last' = Step("updateChecklistItem",
                    IF calls[i].ok THEN "resolved" ELSE "rejected", NoUid)
    /\ UNCHANGED <<accounts, nextUid, cur, events, cbs, users, user, loading,
                   error, isInitialized, isAnonymous, op, budget, route,
                   browser, service, checklists, hist>>

\* a settled signed-in session whose checklist may or may not be stored
InitChecklist ==
  /\ accounts = [u \in Uids |-> IF u = 1 THEN PasswordAccount("a@x.com", "pw1")
                               ELSE Null]
  /\ users = [u \in Uids |-> IF u = 1 THEN signUp_userData(1, "a@x.com") ELSE Null]
  /\ nextUid = 2
  /\ cur = 1
  /\ events = <<>>
  /\ cbs = <<>>
  /\ user = mappedUser(FirebaseUser(accounts, 1))
  /\ loading = FALSE
  /\ error = Null
  /\ isInitialized = TRUE
  /\ isAnonymous = FALSE
  /\ op = Null
  /\ last = Step("listener", "done", 1)
  /\ budget = Unlimited
  /\ location = "/checklists"
  /\ navFrom = NoPath
  /\ verifiedOnly = FALSE
  /\ userAgent = MacSafari
  /\ NoCalls
  /\ checklists \in [ChecklistIds -> {Null, Checklist(InitialItems)}]
  /\ calls = <<>>
  /\ hist = <<>>

NextChecklist ==
  \/ updateChecklistItem_call
  \/ updateChecklistItem_updateDoc
  \/ updateChecklistItem_return

SpecChecklist == InitChecklist /\ [][NextChecklist]_vars

\* ------------------------------------------- the route table, any guard prop
\* a visitor with two accounts, one whose email is verified; the browser may
\* hold either session; the guard of the protected routes may require a
\* verified email; any URL of the table may be the first one opened
VerifiedAccount(e, p) == [PasswordAccount(e, p) EXCEPT !.verified = TRUE]

InitGuard ==
  /\ accounts = [u \in Uids |-> IF u = 1 THEN PasswordAccount("a@x.com", "pw1")
                               ELSE IF u = 2 THEN VerifiedAccount("b@x.com", "pw2")
                               ELSE Null]
  /\ users = [u \in Uids |-> IF u = 1 THEN signUp_userData(1, "a@x.com")
                            ELSE IF u = 2 THEN signUp_userData(2, "b@x.com")
                            ELSE Null]
  /\ nextUid = 3
  /\ \E u \in {NoUid, 1, 2} :
       /\ cur = u
       /\ events = <<IF u = NoUid THEN Null ELSE FirebaseUser(accounts, u)>>
  /\ AuthProvider
  /\ budget = Unlimited
  /\ location \in AllPaths
  /\ navFrom = NoPath
  /\ verifiedOnly \in BOOLEAN
  /\ userAgent = MacSafari
  /\ NoCalls
  /\ checklists = NoChecklists
  /\ calls = <<>>
  /\ hist = <<>>

SpecGuard == InitGuard /\ [][NextRoute]_vars

\* following the redirects from path p in the current auth state ends, within
\* n redirects, at a route element that does not redirect
RECURSIVE RedirectsEnd(_, _)
RedirectsEnd(p, n) ==
  IF RouteAt(p).render # "Navigate" THEN TRUE
  ELSE IF n = 0 THEN FALSE
  ELSE RedirectsEnd(RouteAt(p).to, n - 1)

\* a chain that never repeats a path makes fewer redirects than there are paths
MaxRedirects == Cardinality(AllPaths)

\* ------------------------------------- checklistService, called in sequence
\* the documents of the caller's checklists collection
ListIds == {"c1", "c2"}
AllItemIds == ItemIds \cup {"i3"}
OtherUid == MaxUid + 1      \* a user id that is not the caller's

\* getCurrentUid / getChecklistDocRef / getChecklistsCollectionRef resolve the
\* active session's id and fail when there is none
getCurrentUid == [value |-> cur, threw |-> cur = NoUid]

\* a stored item: title, completed, createdAt, and updatedAt once updated
StoredItem(id, title, completed) ==
  [id |-> id, title |-> title, completed |-> completed, createdAt |-> Epoch]

\* a stored checklist document
ChecklistDoc(id, title, items, by, created, updated) ==
  [id |-> id, title |-> title, items |-> items, createdBy |-> by,
   isPublic |-> FALSE, createdAt |-> created, updatedAt |-> updated]

\* Omit<Checklist, 'id' | 'createdAt' | 'updatedAt'>: createdBy is the
\* caller's to fill in
ChecklistInputs ==
  {[title |-> "Shopping", items |-> <<>>, isPublic |-> FALSE, createdBy |-> by] :
     by \in {NoUid, 1, OtherUid}}

\* Partial<Omit<Checklist, 'id' | 'createdAt' | 'createdBy'>>
ChecklistUpdates ==
  {[title |-> "Errands"], [isPublic |-> TRUE],
   [title |-> "Errands", items |-> <<>>]}

\* Omit<ChecklistItem, 'id' | 'createdAt' | 'completed'>
ItemInputs == {[title |-> "Buy milk"], [title |-> "t1"]}

\* a spread: the entries of over replace those of under
spread(under, over) ==
  [k \in DOMAIN under \cup DOMAIN over |->
     IF k \in DOMAIN over THEN over[k] ELSE under[k]]

\* checklist.items || []
itemsOf(document) == IF "items" \in DOMAIN document THEN document.items ELSE <<>>

\* the ids of the items of an array
IdsOf(items) == {items[k].id : k \in 1..Len(items)}

\* crypto.randomUUID(): an id no stored item has
randomUUID(store) ==
  AllItemIds \ UNION {IdsOf(itemsOf(store[c])) : c \in {d \in ListIds : store[d] # Null}}

\* the store requests at which a checklist call may fail
ListFailures == {"none", "getDoc", "write"}

\* a createChecklist that keeps the createdBy of its input
createChecklist_inputWins(store, data, newId, now, failAt) ==
  LET uid == getCurrentUid IN
    IF uid.threw THEN Outcome(store, TRUE, <<>>)
    ELSE IF failAt = "write" THEN Outcome(store, TRUE, <<"setDoc">>)
    ELSE Outcome([store EXCEPT ![newId] =
                    spread([id |-> newId, createdBy |-> uid.value,
                            createdAt |-> now, updatedAt |-> now], data)],
                 FALSE, <<"setDoc">>)

\* createChecklist: { ...checklistData, id, createdBy: userId, createdAt: now,
\* updatedAt: now } is set at a new document id
createChecklist(store, data, newId, now, failAt) ==
  LET uid == getCurrentUid IN
    IF uid.threw THEN Outcome(store, TRUE, <<>>)
    ELSE IF failAt = "write" THEN Outcome(store, TRUE, <<"setDoc">>)
    ELSE Outcome([store EXCEPT ![newId] =
                    spread(data, [id |-> newId, createdBy |-> uid.value,
                                  createdAt |-> now, updatedAt |-> now])],
                 FALSE, <<"setDoc">>)

\* updateChecklist: updateDoc(ref, { ...updates, updatedAt: new Date() })
updateChecklist(store, c, updates, now, failAt) ==
  IF getCurrentUid.threw THEN Outcome(store, TRUE, <<>>)
  ELSE IF failAt = "write" \/ store[c] = Null THEN Outcome(store, TRUE, <<"updateDoc">>)
  ELSE Outcome([store EXCEPT ![c] =
                  updateDoc(store[c], spread(updates, [updatedAt |-> now]))],
               FALSE, <<"updateDoc">>)

\* getChecklist: the document, Null when there is none
getChecklist(store, c, failAt) ==
  IF getCurrentUid.threw \/ failAt = "getDoc" THEN [value |-> Null, threw |-> TRUE]
  ELSE [value |-> store[c], threw |-> FALSE]

\* the three item operations: getDoc; throw when the document does not exist;
\* updateDoc(ref, { items, updatedAt: new Date() })
writeItems(store, c, items, now, failAt) ==
  IF failAt = "write" THEN Outcome(store, TRUE, <<"updateDoc">>)
  ELSE Outcome([store EXCEPT ![c] =
                  updateDoc(store[c], [items |-> items, updatedAt |-> now])],
               FALSE, <<"updateDoc">>)

\* an addChecklistItem that creates the document it does not find
addChecklistItem_creates(store, c, item, newId, now, failAt) ==
  IF getCurrentUid.threw \/ failAt = "getDoc" THEN Outcome(store, TRUE, <<>>)
  ELSE writeItems(IF store[c] = Null
                    THEN [store EXCEPT ![c] = [k \in {} |-> Null]] ELSE store,
                  c,
                  Append(IF store[c] = Null THEN <<>> ELSE itemsOf(store[c]),
                         spread(item, [id |-> newId, completed |-> FALSE,
                                       createdAt |-> now])),
                  now, failAt)

\* an addChecklistItem that writes the new item alone
addChecklistItem_replaces(store, c, item, newId, now, failAt) ==
  IF getCurrentUid.threw \/ failAt = "getDoc" \/ store[c] = Null
    THEN Outcome(store, TRUE, <<>>)
  ELSE writeItems(store, c,
                  <<spread(item, [id |-> newId, completed |-> FALSE,
                                  createdAt |-> now])>>,
                  now, failAt)

\* addChecklistItem: [...(checklist.items || []), { ...item, id:
\* crypto.randomUUID(), completed: false, createdAt: new Date() }]
addChecklistItem(store, c, item, newId, now, failAt) ==
  IF getCurrentUid.threw \/ failAt = "getDoc" \/ store[c] = Null
    THEN Outcome(store, TRUE, <<>>)
  ELSE writeItems(store, c,
                  Append(itemsOf(store[c]),
                         spread(item, [id |-> newId, completed |-> FALSE,
                                       createdAt |-> now])),
                  now, failAt)

\* updateChecklistItem, one call run to its end
updateChecklistItem(store, c, itemId, updates, now, failAt) ==
  IF getCurrentUid.threw \/ failAt = "getDoc" \/ store[c] = Null
    THEN Outcome(store, TRUE, <<>>)
  ELSE writeItems(store, c, updatedItems(itemsOf(store[c]), itemId, updates, now),
                  now, failAt)

\* (checklist.items || []).filter(item => item.id !== itemId)
filteredItems(items, itemId) == SelectSeq(items, LAMBDA item : item.id # itemId)

\* removeChecklistItem
removeChecklistItem(store, c, itemId, now, failAt) ==
  IF getCurrentUid.threw \/ failAt = "getDoc" \/ store[c] = Null
    THEN Outcome(store, TRUE, <<>>)
  ELSE writeItems(store, c, filteredItems(itemsOf(store[c]), itemId), now, failAt)

\* what a checklistService call leaves in `ret`
ListReturn(fn, c, arg, key, now, outcome, value) ==
  [fn |-> fn, id |-> c, arg |-> arg, key |-> key, now |-> now,
   threw |-> outcome.threw, writes |-> outcome.writes, value |-> value]

\* the Step a checklistService call leaves in `last`
ListCalled(fn, threw) ==
  Step("checklistService." \o fn, IF threw THEN "rejected" ELSE "resolved", cur)

\* everything a checklistService call leaves alone
ListFrame ==
  /\ UNCHANGED <<accounts, nextUid, cur, events, cbs, users, user, loading, error,
                 isInitialized, isAnonymous, op>>
  /\ UNCHANGED <<route, browser, calls, hist>>

checklistService_createChecklist ==
  /\ budget # 0
  /\ budget' = Spend
  /\ \E data \in ChecklistInputs, failAt \in ListFailures \ {"getDoc"} :
       \E newId \in {c \in ListIds : checklists[c] = Null} :
         LET now == clock + 1
             r == createChecklist(checklists, data, newId, now, failAt) IN
           /\ checklists' = r.store
           /\ clock' = now
           /\ ret' = ListReturn("createChecklist", newId, data, Null, now, r,
                                IF r.threw THEN Null ELSE r.store[newId])
           /\ last' = ListCalled("createChecklist", r.threw)
  /\ ListFrame

checklistService_updateChecklist ==
  /\ budget # 0
  /\ budget' = Spend
  /\ \E c \in ListIds, updates \in ChecklistUpdates,
        failAt \in ListFailures \ {"getDoc"} :
       LET now == clock + 1
           r == updateChecklist(checklists, c, updates, now, failAt) IN
         /\ checklists' = r.store
         /\ clock' = now
         /\ ret' = ListReturn("updateChecklist", c, updates, Null, now, r, Null)
         /\ last' = ListCalled("updateChecklist", r.threw)
  /\ ListFrame

checklistService_getChecklist ==
  /\ budget # 0
  /\ budget' = Spend
  /\ \E c \in ListIds, failAt \in ListFailures \ {"write"} :
       LET r == getChecklist(checklists, c, failAt) IN
         /\ ret' = ListReturn("getChecklist", c, Null, Null, clock,
                              Outcome(checklists, r.threw, <<>>), r.value)
         /\ last' = ListCalled("getChecklist", r.threw)
  /\ UNCHANGED <<checklists, clock>>
  /\ ListFrame

checklistService_addChecklistItem ==
  /\ budget # 0
  /\ budget' = Spend
  /\ \E c \in ListIds, item \in ItemInputs, failAt \in ListFailures :
       \E newId \in randomUUID(checklists) :
         LET now == clock + 1
             r == addChecklistItem(checklists, c, item, newId, now, failAt) IN
           /\ checklists' = r.store
           /\ clock' = now
           /\ ret' = ListReturn("addChecklistItem", c, item, newId, now, r, Null)
           /\ last' = ListCalled("addChecklistItem", r.threw)
  /\ ListFrame

checklistService_updateChecklistItem ==
  /\ budget # 0
  /\ budget' = Spend
  /\ \E c \in ListIds, itemId \in AllItemIds, updates \in ItemUpdates,
        failAt \in ListFailures :
       LET now == clock + 1
           r == updateChecklistItem(checklists, c, itemId, updates, now, failAt) IN
         /\ checklists' = r.store
         /\ clock' = now
         /\ ret' = ListReturn("updateChecklistItem", c, updates, itemId, now, r, Null)
         /\ last' = ListCalled("updateChecklistItem", r.threw)
  /\ ListFrame

checklistService_removeChecklistItem ==
  /\ budget # 0
  /\ budget' = Spend
  /\ \E c \in ListIds, itemId \in AllItemIds, failAt \in ListFailures :
       LET now == clock + 1
           r == removeChecklistItem(checklists, c, itemId, now, failAt) IN
         /\ checklists' = r.store
         /\ clock' = now
         /\ ret' = ListReturn("removeChecklistItem", c, Null, itemId, now, r, Null)
         /\ last' = ListCalled("removeChecklistItem", r.threw)
  /\ ListFrame

\* the checklists a caller may already have: none, an empty one, one with two
\* items, one written without an items field
StoredItems == <<StoredItem("i1", "t1", FALSE), StoredItem("i2", "t1", TRUE)>>
StoredChecklists ==
  {Null,
   ChecklistDoc("c1", "Shopping", <<>>, 1, Epoch, Epoch),
   ChecklistDoc("c1", "Shopping", StoredItems, 1, Epoch, Epoch),
   [id |-> "c1", title |-> "Shopping", createdBy |-> 1, isPublic |-> FALSE,
    createdAt |-> Epoch, updatedAt |-> Epoch]}

InitLists ==
  /\ accounts = [u \in Uids |-> IF u = 1 THEN PasswordAccount("a@x.com", "pw1")
                               ELSE Null]
  /\ users = [u \in Uids |-> Null]
  /\ nextUid = 2
  /\ cur \in {NoUid, 1}
  /\ events = <<>>
  /\ AuthProvider
  /\ budget = MaxCalls
  /\ location = "/checklists"
  /\ navFrom = NoPath
  /\ verifiedOnly = FALSE
  /\ userAgent = MacSafari
  /\ clock = Epoch
  /\ ret = Null
  /\ \E d \in StoredChecklists :
       checklists = [c \in ListIds |-> IF c = "c1" THEN d ELSE Null]
  /\ calls = <<>>
  /\ hist = <<>>

NextLists ==
  \/ checklistService_createChecklist
  \/ checklistService_updateChecklist
  \/ checklistService_getChecklist
  \/ checklistService_addChecklistItem
  \/ checklistService_updateChecklistItem
  \/ checklistService_removeChecklistItem

SpecLists == InitLists /\ [][NextLists]_vars

\* ================================================================ properties
ListenerDone == last.actor = "listener" /\ last.outcome = "done"

SessionOps ==
  {"signUp", "signIn", "signInWithGoogle", "signInWithApple",
   "signInAnonymously", "signOut", "linkWithEmail", "linkWithGoogle",
   "linkWithApple"}

C3_LoadingPlaceholder ==
  value_loading =>
    /\ \A req \in BOOLEAN, loc \in ProtectedPaths :
         ProtectedRoute(user, value_loading, isInitialized, req, loc) = Placeholder
    /\ location \in ProtectedPaths => Routes.render = "placeholder"

\* the loading flag is up on a guarded path while a user is signed in
C3_Witness ==
  /\ value_loading
  /\ isInitialized
  /\ user # Null
  /\ location \in ProtectedPaths

\* the decision C4 states for the settled guard
C4_Decision(u, req, loc) ==
  IF u = Null THEN Navigate("/login", loc)
  ELSE IF req /\ ~u.emailVerified THEN Navigate("/verify-email", loc)
  ELSE Children

\* C4 as stated: once loading is false the guard's decision is the function
\* of (user, requireEmailVerification) above, the redirect to sign-in carries
\* the requested location, and that location is used for the return after
\* login: a login completing on the sign-in page with a carried location
\* lands there.
C4_GuardDecisionAndReturn ==
  [][/\ ~value_loading =>
          \A req \in BOOLEAN, loc \in ProtectedPaths :
            ProtectedRoute(user, value_loading, isInitialized, req, loc)
              = C4_Decision(user, req, loc)
     /\ last'.actor = "signIn" /\ last'.outcome = "resolved" /\ navFrom # NoPath
          => location' = navFrom
    ]_vars

\* C5: when calls of updateChecklistItem on one checklist all read the
\* document before any of them writes, the stored items are the items read
\* with only the last writer's change applied (every earlier writer's change
\* is gone), and no call that wrote reports an error.
C5_LastWriteWins ==
  \A c \in ChecklistIds :
    LET writes == {k \in 1..Len(hist) :
                     hist[k].kind = "write" /\ calls[hist[k].call].checklistId = c}
        reads == {k \in 1..Len(hist) :
                    hist[k].kind = "read" /\ calls[hist[k].call].checklistId = c}
    IN (writes # {} /\ \A r \in reads, w \in writes : r < w) =>
         LET kw == CHOOSE k \in writes : \A j \in writes : j <= k
             w == calls[hist[kw].call]
             stored == checklists[c].items
         IN /\ Len(stored) = Len(InitialItems)
            /\ \A k \in 1..Len(stored) :
                 IF InitialItems[k].id = w.itemId
                   THEN /\ stored[k].id = w.itemId
                        /\ stored[k].title =
                             IF w.updates.title = None THEN InitialItems[k].title
                             ELSE w.updates.title[1]
                        /\ stored[k].completed =
                             IF w.updates.completed = None
                               THEN InitialItems[k].completed
                               ELSE w.updates.completed[1]
                        /\ stored[k].updatedAt > 0
                   ELSE stored[k] = InitialItems[k]
            /\ \A k \in writes : calls[hist[k].call].pc \in {"updateDoc", "resolved"}

\* two calls changed different items from the same read; both resolved and the
\* first writer's item is stored unchanged
C5_Witness ==
  /\ Len(hist) = 4
  /\ hist[1].kind = "read" /\ hist[2].kind = "read"
  /\ hist[3].kind = "write" /\ hist[4].kind = "write"
  /\ hist[3].call # hist[4].call
  /\ calls[hist[3].call].itemId = "i1"
  /\ calls[hist[4].call].itemId = "i2"
  /\ \A i \in 1..Len(calls) : calls[i].pc = "resolved"
  /\ checklists["c1"].items[1] = InitialItems[1]

\* C6 as stated: once the listener callback of an anonymous session has
\* completed, the store holds a record users/{session id} with role guest.
C6_GuestRecordProvisioned ==
  (/\ ListenerDone
   /\ last.uid # NoUid
   /\ user # Null /\ user.id = last.uid /\ user.isAnonymous)
  => /\ users[last.uid] # Null
     /\ users[last.uid].role = "guest"

\* C7: a signUp whose credential was created and whose record write failed
\* rejects with the account in place and no record for it; and no listener
\* step and no signIn step gives a record to a permanent account that has
\* none, or removes or changes that account.
C7_OrphanStays ==
  [][/\ last'.actor = "signUp" /\ last'.outcome = "rejected" /\ last'.uid # NoUid
          => /\ accounts'[last'.uid] # Null
             /\ users'[last'.uid] = Null
     /\ last'.actor \in {"listener", "signIn"} =>
          \A u \in Uids :
            accounts[u] # Null /\ ~accounts[u].anon /\ users[u] = Null
              => users'[u] = Null /\ accounts'[u] = accounts[u]
    ]_vars

\* an email sign-in into an account without a record has resolved
C7_Witness ==
  /\ last.actor = "signIn" /\ last.outcome = "resolved"
  /\ last.uid # NoUid
  /\ accounts[last.uid] # Null
  /\ users[last.uid] = Null

C9_DeletionOrder ==
  [][last'.actor = "deleteUser" /\ op # Null =>
       /\ users' # users =>
            /\ op.pc = "reauthenticate"
            /\ accounts[op.uid] # Null
            /\ accounts[op.uid].pw = op.password
       /\ accounts' # accounts =>
            /\ op.pc = "userServices.deleteUser"
            /\ accounts'[op.uid] = Null
            /\ user' = user
       /\ user' # user =>
            /\ op.pc = "delete"
            /\ accounts[op.uid] = Null
            /\ user' = Null
       /\ op.pc = "userServices.deleteUser" =>
            op' # Null /\ op'.pc = "delete"
       /\ (op.pc = "reauthenticate" /\ accounts[op.uid].pw # op.password) =>
            /\ op' = Null
            /\ last'.outcome = "rejected"
            /\ users' = users
            /\ accounts' = accounts
            /\ user' = user
    ]_vars

\* deleteUser resolved although the record deletion failed: the account is
\* gone, the record is still stored
C9_Witness ==
  /\ last.actor = "deleteUser" /\ last.outcome = "resolved"
  /\ accounts[last.uid] = Null
  /\ users[last.uid] # Null
  /\ user = Null

\* C10: updateEmail and changePassword present the credential made of the
\* session's current email and the supplied password; the provider's email or
\* password changes only in the step that follows a re-authentication this
\* credential passed; and after a failed re-authentication the operation
\* returns with the provider account, the record and the local user
\* unchanged.
C10_ReauthFirst ==
  [][last'.actor \in {"updateEmail", "changePassword"} =>
       /\ (op = Null /\ op' # Null) =>
            /\ op'.cred = credential(currentUserEmail, op'.password)
            /\ accounts' = accounts /\ users' = users /\ user' = user
       /\ (op # Null /\ accounts' # accounts) =>
            /\ op.pc = "reauthenticate"
            /\ op.cred.email = accounts[op.uid].email
            /\ op.cred.password = accounts[op.uid].pw
            /\ op.cred.email # ""
       /\ (op # Null /\ op.pc = "reauthenticate"
             /\ ~(/\ op.cred.email = accounts[op.uid].email
                  /\ op.cred.password = accounts[op.uid].pw
                  /\ op.cred.email # "")) =>
            /\ op' = Null
            /\ last'.outcome = "rejected"
            /\ accounts' = accounts /\ users' = users /\ user' = user
    ]_vars

\* the password was changed after a re-authentication with the old one
C10_Witness ==
  /\ op # Null /\ op.name = "changePassword"
  /\ op.pc = "updatePassword" /\ op.ok
  /\ op.newPassword # op.password
  /\ accounts[op.uid].pw = op.newPassword

\* a step of updateEmail or changePassword that rejects at its precondition:
\* nothing is awaited and nothing is asked of the provider
RejectedAtGuard ==
  /\ op' = Null
  /\ last'.outcome = "rejected"
  /\ accounts' = accounts /\ cur' = cur /\ events' = events
  /\ users' = users /\ user' = user

\* C11 as stated: updateEmail and changePassword reject before any provider
\* call whenever there is no session or the session has no email.
C11_BothFailBeforeProvider ==
  [][(/\ last'.actor \in {"updateEmail", "changePassword"}
      /\ op = Null
      /\ currentUserEmail = "")
       => RejectedAtGuard]_vars

\* C11 amended: changePassword rejects before any provider call when there is
\* no session or the session has no email; updateEmail does so only when
\* there is no session.  With a session that has no email updateEmail asks
\* the provider to re-authenticate with the credential ("", password); the
\* provider refuses it and updateEmail then rejects with account, record and
\* local user unchanged.
C11_GuardsOfEmailAndPassword ==
  [][/\ (last'.actor = "changePassword" /\ op = Null /\ currentUserEmail = "")
          => RejectedAtGuard
     /\ (last'.actor = "updateEmail" /\ op = Null /\ cur = NoUid)
          => RejectedAtGuard
     /\ (last'.actor = "updateEmail" /\ op = Null /\ cur # NoUid
           /\ currentUserEmail = "")
          => /\ op' # Null
             /\ op'.pc = "reauthenticate"
             /\ op'.cred = credential("", op'.password)
             /\ ~op'.ok
             /\ accounts' = accounts /\ users' = users /\ user' = user
     /\ (last'.actor = "updateEmail" /\ op # Null /\ op.pc = "reauthenticate"
           /\ op.cred.email = "")
          => /\ op' = Null
             /\ last'.outcome = "rejected"
             /\ accounts' = accounts /\ users' = users /\ user' = user
    ]_vars

\* updateEmail has rejected for an anonymous session, after the provider
\* refused the re-authentication
C11_Witness ==
  /\ last.actor = "updateEmail" /\ last.outcome = "rejected"
  /\ last.uid # NoUid
  /\ accounts[last.uid] # Null /\ accounts[last.uid].anon
  /\ cur = last.uid

\* C12 as stated: a call of signInWithApple or linkWithApple while the
\* capability check is false rejects at once, asks the provider for nothing,
\* and reports the unsupported-browser code in the shared error.
C12_UnsupportedBrowserCode ==
  [][(/\ last'.actor \in {"signInWithApple", "linkWithApple"}
      /\ op = Null
      /\ ~isIosOrSafari)
       => /\ op' = Null
          /\ last'.outcome = "rejected"
          /\ accounts' = accounts /\ cur' = cur /\ events' = events
          /\ error' # Null
          /\ error'.code = UNSUPPORTED_BROWSER]_vars

\* the operations of the context that can fail
AuthOps ==
  SessionOps \cup {"sendPasswordResetEmail", "sendEmailVerification",
                   "updateEmail", "changePassword", "deleteUser"}

\* C13 as stated: whenever an auth operation rejects, at whatever step, its
\* precondition checks included, the shared error is set (non-null) when it
\* returns.
C13_EveryFailureSetsError ==
  [][(last'.actor \in AuthOps /\ last'.outcome = "rejected")
       => error' # Null]_vars

\* C14 as stated: the start of every operation attempt clears the shared
\* error: once the invocation has issued its provider call the error is
\* null, so an error left by an earlier operation cannot outlive a later
\* operation that completes successfully.
C14_ErrorClearedAtStart ==
  [][(last'.actor \in AuthOps /\ op = Null /\ op' # Null) => error' = Null]_vars

SocialOps == {"signInWithGoogle", "signInWithApple"}

\* the fields of a stored record a social sign-in may rewrite
Refreshed == {"displayName", "photoURL", "metadata", "updatedAt"}

\* the entries of old that new carries over, apart from those in except
Carried(old, new, except) ==
  /\ DOMAIN new \subseteq DOMAIN old \cup except
  /\ \A k \in DOMAIN old \ except : k \in DOMAIN new /\ new[k] = old[k]

\* C15: a successful signInWithGoogle / signInWithApple leaves a record at
\* users/{uid}.  The write creates it when there was none; on an existing
\* record it changes nothing but displayName and photoURL (each only to the
\* provider's value, when that differs), metadata.lastLogin and updatedAt:
\* role, isActive, email, createdAt and the preferences stay as they were,
\* and no other record is touched.
C15_SocialRecord ==
  [][last'.actor \in SocialOps =>
       /\ last'.outcome = "resolved" => users'[last'.uid] # Null
       /\ users' # users =>
            LET u == op.uid
                old == users[u]
                new == users'[u]
                a == accounts[u] IN
              /\ \A v \in Uids \ {u} : users'[v] = users[v]
              /\ new # Null
              /\ old # Null =>
                   /\ Carried(old, new, Refreshed)
                   /\ "metadata" \in DOMAIN old =>
                        Carried(old.metadata, new.metadata, {"lastLogin"})
                   /\ fieldOf(new, "displayName") # fieldOf(old, "displayName") =>
                        new.displayName = a.displayName
                   /\ fieldOf(new, "photoURL") # fieldOf(old, "photoURL") =>
                        new.photoURL = a.photoURL
    ]_vars

\* a returning identity signed in over the edited record: the provider's name
\* replaced the stored one and the administrator's role is still there
C15_Witness ==
  /\ last.actor \in SocialOps
  /\ last.outcome = "resolved"
  /\ users[last.uid].role = "admin"
  /\ users[last.uid].displayName = "Bea"
  /\ users[last.uid].metadata.lastLogin = Now
  /\ users[last.uid].metadata.preferences.theme = "dark"

\* C16: signOut hands the sign-out to the provider and touches neither user
\* nor isAnonymous while that call is pending.  When the call succeeds the
\* session is gone at the provider and signOut itself sets isAnonymous to
\* false, whether or not the listener has been told yet.  When the call
\* fails signOut rejects with the error set, and user and isAnonymous are
\* what they were.
C16_SignOut ==
  [][last'.actor = "signOut" =>
       /\ last'.outcome = "await" =>
            /\ op'.ok => cur' = NoUid
            /\ ~op'.ok => cur' = cur
            /\ UNCHANGED <<user, isAnonymous>>
       /\ last'.outcome = "resolved" =>
            /\ cur' = NoUid
            /\ isAnonymous' = FALSE
       /\ last'.outcome = "rejected" =>
            /\ error' # Null
            /\ UNCHANGED <<user, isAnonymous, cur>>
    ]_vars

\* a guest signed out: isAnonymous is already false while the listener has
\* still to be told of the sign-out
C16_Witness ==
  /\ last.actor = "signOut"
  /\ last.outcome = "resolved"
  /\ \E u \in Uids : accounts[u] # Null /\ accounts[u].anon
  /\ events # <<>>
  /\ Head(events) = Null
  /\ ~isAnonymous

\* the fields of a patch whose value is neither null nor undefined
Defined(patch) == {k \in DOMAIN patch : patch[k] # None}

\* the call wrote the fields `written` of the patch into users/{id} with one
\* updateDoc, stamped updatedAt when the patch did not carry it, and left the
\* rest of the record and every other record alone
WroteFields(id, patch, written) ==
  /\ ret'.writes = <<"updateDoc">>
  /\ users[id] # Null
  /\ users'[id] # Null
  /\ \A v \in Uids \ {id} : users'[v] = users[v]
  /\ \A k \in written : users'[id][k] = patch[k][1]
  /\ "updatedAt" \notin written => users'[id].updatedAt = ret'.now
  /\ Carried(users[id], users'[id], written \cup {"updatedAt"})

\* the call sent nothing to the store and the store is as it was
WroteNothing ==
  /\ ret'.writes = <<>>
  /\ users' = users

RoundTrip ==
  /\ last.actor = "userServices.createUser"
  /\ last.outcome = "resolved"
  /\ last'.actor = "userServices.getUser"
  /\ last'.outcome = "resolved"
  /\ ret'.id = ret.id

\* C18 as stated: createUser(input) followed by getUser(input.id) returns a
\* record with the input's email and displayName whose createdAt and
\* updatedAt were both set at write time, whatever the caller supplied, and
\* are equal.
C18_RoundTrip ==
  [][RoundTrip =>
       /\ ret'.value # Null
       /\ ret'.value.email = ret.arg.email
       /\ ret'.value.displayName = ret.arg.displayName
       /\ ret'.value.createdAt = ret.now
       /\ ret'.value.updatedAt = ret'.value.createdAt
    ]_vars

\* C18, amended: the record returned has the input's email and displayName;
\* createdAt is the clock createUser read first and updatedAt the clock it
\* read second, whatever the caller supplied, so updatedAt is createdAt or
\* later.
C18_RoundTripTwoReads ==
  [][RoundTrip =>
       /\ ret'.value # Null
       /\ ret'.value.email = ret.arg.email
       /\ ret'.value.displayName = ret.arg.displayName
       /\ ret'.value.createdAt = ret.now
       /\ ret'.value.updatedAt = clock
       /\ ret'.value.updatedAt - ret'.value.createdAt \in Elapsed
       /\ ret'.value.createdAt > Epoch
    ]_vars

\* createUser then getUser, and nothing else: the record read back is the
\* one of the input named Bea, stamped by two different clock reads
C18_Witness ==
  /\ last.actor = "userServices.getUser"
  /\ last.outcome = "resolved"
  /\ budget = MaxCalls - 2
  /\ ret.value # Null
  /\ ret.value.displayName = "Bea"
  /\ ret.value.email = "b@x.com"
  /\ ret.value.updatedAt = ret.value.createdAt + 1

\* the store was going to fail the request `at` of the call that returned
FailedAt(at) == IF ret'.fault = Null THEN FALSE ELSE ret'.fault.at = at

\* C19: userServices.deleteUser(id) is idempotent.  With a record at id it
\* sends the deactivating update and then the delete, and getUser(id) is null
\* afterwards; with no record it returns without an error and without a
\* write; a second call right after a first changes nothing.  No other
\* record is touched.
C19_DeleteIdempotent ==
  [][last'.actor = "userServices.deleteUser" =>
       LET id == ret'.id IN
         /\ \A v \in Uids \ {id} : users'[v] = users[v]
         /\ (users[id] = Null /\ ~FailedAt("getDoc")) =>
              /\ last'.outcome = "resolved"
              /\ WroteNothing
         /\ (users[id] # Null /\ last'.outcome = "resolved") =>
              /\ ret'.writes = <<"updateDoc", "deleteDoc">>
              /\ getUser(users', id, TRUE).value = Null
         /\ (users[id] # Null /\ ret'.fault = Null) => last'.outcome = "resolved"
         /\ (/\ last.actor = "userServices.deleteUser"
             /\ last.outcome = "resolved"
             /\ ret.id = id
             /\ last'.outcome = "resolved") => users' = users
    ]_vars

\* deleteUser found a record: it sent both writes and the record is gone
C19_Witness ==
  /\ last.actor = "userServices.deleteUser"
  /\ last.outcome = "resolved"
  /\ ret.writes = <<"updateDoc", "deleteDoc">>
  /\ getUser(users, ret.id, TRUE).value = Null

ServiceCalls ==
  {"userServices." \o fn :
     fn \in {"createUser", "getUser", "updateUser", "deactivateUser", "deleteUser"}}

\* the call that returned sent the store a request that the store failed
StoreFailed ==
  /\ ret'.fault # Null
  /\ CASE ret'.fn = "updateUser" -> Defined(ret'.arg) \ {"updatedAt"} # {}
       [] ret'.fn = "deleteUser" -> FailedAt("getDoc") \/ users[ret'.id] # Null
       [] OTHER -> TRUE

\* C20: getUser of an id with no record resolves with null.  A call in which
\* a store request fails rejects, and whatever the store's error was
\* (permission, network, missing document) the error thrown is the
\* function's own operation-failed Error: a message and no code.
C20_GenericFailure ==
  [][last'.actor \in ServiceCalls =>
       /\ (ret'.fn = "getUser" /\ users[ret'.id] = Null /\ ret'.fault = Null) =>
            /\ last'.outcome = "resolved"
            /\ ret'.value = Null
       /\ StoreFailed => last'.outcome = "rejected"
       /\ last'.outcome = "rejected" =>
            /\ ret'.error = [message |-> FailedMessage(ret'.fn)]
            /\ DOMAIN ret'.error = {"message"}
       /\ last'.outcome = "resolved" => ret'.error = Null
    ]_vars

\* the store refused an update for lack of permission: the caller sees the
\* generic Error of updateUser
C20_Witness ==
  /\ last.actor = "userServices.updateUser"
  /\ last.outcome = "rejected"
  /\ ret.fault = Fault("updateDoc", "permission-denied")
  /\ ret.error = [message |-> "Failed to update user"]

\* ---------------------------------------------------------------- C21
ListResolved(fn) ==
  /\ last'.actor = "checklistService." \o fn
  /\ last'.outcome = "resolved"

\* C21: a resolved addChecklistItem on an existing checklist leaves the items
\* it found, in their order, followed by exactly one new item that is not
\* completed, carries the input's fields and has an id no stored item had; a
\* getChecklist made next returns that array (of length 1 when the checklist
\* had no items).  A rejected call leaves the store as it was.
C21_AppendsOneItem ==
  [][(last'.actor = "checklistService.addChecklistItem") =>
       IF last'.outcome = "resolved"
         THEN LET c == ret'.id
                  before == itemsOf(checklists[c])
                  after == getChecklist(checklists', c, "none").value.items IN
                /\ checklists[c] # Null
                /\ Len(after) = Len(before) + 1
                /\ SubSeq(after, 1, Len(before)) = before
                /\ after[Len(after)].completed = FALSE
                /\ after[Len(after)].title = ret'.arg.title
                /\ after[Len(after)].id \notin IdsOf(before)
                /\ (before = <<>> => Len(after) = 1)
                /\ \A d \in ListIds \ {c} : checklists'[d] = checklists[d]
         ELSE checklists' = checklists]_vars

\* two items were added in turn to a checklist that had none: the first made
\* an array of length 1, the second was appended after it
C21_Witness ==
  /\ last.actor = "checklistService.addChecklistItem"
  /\ last.outcome = "resolved"
  /\ Len(checklists[ret.id].items) = 2
  /\ checklists[ret.id].items[1].createdAt = Epoch + 1
  /\ checklists[ret.id].items[2].createdAt = Epoch + 2
  /\ checklists[ret.id].items[2].id = ret.key

\* ---------------------------------------------------------------- C22
\* C22: a resolved createChecklist writes one new document whose createdBy is
\* the id of the current session, whatever createdBy its input carried; a
\* createChecklist without a session is rejected and sends no write; and no
\* call of the service changes the createdBy of a document it leaves in place.
C22_CreatedByFixed ==
  [][/\ \A c \in ListIds :
          (checklists[c] # Null /\ checklists'[c] # Null) =>
            checklists'[c].createdBy = checklists[c].createdBy
     /\ (last'.actor = "checklistService.createChecklist") =>
          IF last'.outcome = "resolved"
            THEN /\ cur # NoUid
                 /\ checklists[ret'.id] = Null
                 /\ checklists'[ret'.id].createdBy = cur
                 /\ \A d \in ListIds \ {ret'.id} : checklists'[d] = checklists[d]
            ELSE checklists' = checklists
     /\ (last'.actor = "checklistService.createChecklist" /\ cur = NoUid) =>
          /\ last'.outcome = "rejected"
          /\ ret'.writes = <<>>]_vars

\* a checklist created in this behaviour was then changed by a second call and
\* still names the session's user
C22_Witness ==
  /\ last.actor \in {"checklistService.updateChecklist",
                     "checklistService.addChecklistItem"}
  /\ last.outcome = "resolved"
  /\ checklists[ret.id].createdAt = Epoch + 1
  /\ checklists[ret.id].updatedAt = Epoch + 2
  /\ checklists[ret.id].createdBy = cur

\* ---------------------------------------------------------------- C30
ItemCalls ==
  {"checklistService.addChecklistItem", "checklistService.updateChecklistItem",
   "checklistService.removeChecklistItem"}

\* C30: an item call for a checklist id without a document is rejected, sends
\* no write and creates no document; a resolved updateChecklistItem or
\* removeChecklistItem naming an item id the array does not hold leaves the
\* items as they were; and after a resolved removeChecklistItem a second
\* removal of the same id gives the same items.
C30_MissingTargets ==
  [][(last'.actor \in ItemCalls) =>
       LET c == ret'.id IN
         /\ (checklists[c] = Null) =>
              /\ last'.outcome = "rejected"
              /\ ret'.writes = <<>>
              /\ checklists' = checklists
         /\ (/\ last'.outcome = "resolved"
             /\ last'.actor # "checklistService.addChecklistItem"
             /\ ret'.key \notin IdsOf(itemsOf(checklists[c]))) =>
              checklists'[c].items = itemsOf(checklists[c])
         /\ (/\ last'.outcome = "resolved"
             /\ last'.actor = "checklistService.removeChecklistItem") =>
              LET again == removeChecklistItem(checklists', c, ret'.key,
                                               ret'.now + 1, "none") IN
                /\ ~again.threw
                /\ again.store[c].items = checklists'[c].items]_vars

\* the first call removed an id that neither stored item carries: the items
\* are the stored ones and only updatedAt moved
C30_Witness ==
  /\ last.actor = "checklistService.removeChecklistItem"
  /\ last.outcome = "resolved"
  /\ ret.key = "i3"
  /\ checklists[ret.id].items = StoredItems
  /\ checklists[ret.id].updatedAt = Epoch + 1

\* ---------------------------------------------------------------- C29
\* C29: every stored record is inactive exactly when it carries deletedAt.
C29_LivenessConsistent ==
  \A u \in Uids :
    users[u] # Null => (users[u].isActive = FALSE <=> "deletedAt" \in DOMAIN users[u])

\* ---------------------------------------------------------------- C24
\* C24: when signUp resolves, the provider has sent a verification email to
\* the account it created.
C24_SignUpSendsVerification ==
  [][(last'.actor = "signUp" /\ last'.outcome = "resolved") =>
       /\ accounts'[last'.uid] # Null
       /\ accounts'[last'.uid].mailed]_vars

\* ---------------------------------------------------------------- C25
\* every session change has been delivered and every callback has returned
CallbacksDone == events = <<>> /\ cbs = <<>>

\* C25: once all listener callbacks have completed, user is null exactly when
\* the provider has no session, and otherwise carries the session's id.
C25_UserReflectsSession ==
  CallbacksDone =>
    /\ (user = Null <=> cur = NoUid)
    /\ (user # Null => user.id = cur)

\* ---------------------------------------------------------------- C26
\* the operations that call setLoading(true) when they start
LoadingOps ==
  {"signUp", "signInAnonymously", "signOut", "deleteUser", "sendEmailVerification",
   "linkWithEmail", "linkWithGoogle", "linkWithApple", "updateUserProfile"}

\* C26: while one of these operations is in flight, loading is true.
C26_LoadingHeld ==
  (op # Null /\ op.name \in LoadingOps) => loading = TRUE

\* ---------------------------------------------------------------- C27
\* no session change waits to be delivered, no callback is suspended and no
\* operation is in flight
Quiescent == events = <<>> /\ cbs = <<>> /\ op = Null

\* C27: in a quiescent state isAnonymous is true exactly when user is
\* non-null and user.isAnonymous is true.
C27_IsAnonymousAgrees ==
  Quiescent =>
    (isAnonymous = TRUE <=> IF user = Null THEN FALSE ELSE user.isAnonymous)

ShippedRoutesSettle ==
  (~value_loading /\ ~verifiedOnly) => \A p \in AllPaths : RedirectsEnd(p, MaxRedirects)

\* ---------------------------------------------------------------- C23
\* C23: no step of an operation issues again the call it is waiting for; a
\* deleteUser whose record deletion failed does not resolve; and a listener
\* callback whose getUser or createUser failed does not complete without an
\* error being set.
C23_FailuresSurfaced ==
  [][/\ (op # Null /\ op' # Null /\ op' # op /\ op'.name = op.name
           /\ "pc" \in DOMAIN op /\ "pc" \in DOMAIN op') => op'.pc # op.pc
     /\ (last'.actor = "deleteUser" /\ last'.outcome = "resolved") =>
          ~op.recordThrew
     /\ \A i \in 1..Len(cbs) :
          (cbs' = RemoveAt(cbs, i) /\ cbs[i].res.threw) => error' # Null]_vars

====
